---- MODULE Spec2Model ----
(***************************************************************************)
(* Server-function RPC layer of tanstack-bun (src/server-fn.ts, held in    *)
(* src/unnamed/part_005 lines 164-675) with the definitions of src/api.ts  *)
(* (src/unnamed/part_001) and the transport of server.tsx (part_000).      *)
(*                                                                         *)
(* The JavaScript runtime is single-threaded: an invocation runs without   *)
(* interruption until it reaches an `await`, where any other invocation    *)
(* may run.  Each action therefore takes one invocation from the await it  *)
(* is parked at to its next await (RunToAwait) in a single step.           *)
(***************************************************************************)
EXTENDS Integers, Sequences, FiniteSets, TLC

\* ------------------------------------------------------------------ bounds
NumInv == 2
Inv == 1..NumInv
\* longest string, and most items of an array, among the values sent through JSON
MaxStringLen == 2
MaxItems == 1
\* most routes given an SSR configuration
MaxRoutes == 2
\* the milliseconds followed after defer, and the longest timeoutMs
MaxTime == 3
MaxWait == 2
\* most procedures created by name
MaxNamed == 2
\* most builder stages made after start-up, and most handler() calls on them
MaxStages == 3
MaxServerFns == 2
\* most definitions followed in each of two executions
MaxDefs == 3
\* most middlewares of the chain whose data is followed
MaxChain == 2
\* most API routes defined
MaxApiRoutes == 3

\* ------------------------------------------------------ JSON-like values
\* A field value: undefined, a string (sequence of characters) or a number.
Undef == [t |-> "undefined", s |-> <<>>, n |-> 0]
Str(cs) == [t |-> "string", s |-> cs, n |-> 0]
Num(k) == [t |-> "number", s |-> <<>>, n |-> k]

\* An input: undefined, or an object with the fields the schemas of api.ts read.
NoInput == [t |-> "undefined", message |-> Undef, username |-> Undef, id |-> Undef]
Obj(m, u, i) == [t |-> "object", message |-> m, username |-> u, id |-> i]

ABC == <<"a", "b", "c">>
ADMIN == <<"a", "d", "m", "i", "n">>
InMsgAbc == Obj(Str(ABC), Undef, Undef)
InMsgEmpty == Obj(Str(<<>>), Undef, Undef)
InAdmin == Obj(Undef, Str(ADMIN), Undef)
InId9 == Obj(Undef, Undef, Num(9))
Inputs == {NoInput, InMsgAbc, InMsgEmpty, InAdmin, InId9}

RECURSIVE Reverse(_)
\* input.message.split("").reverse().join("")
Reverse(s) == IF s = <<>> THEN <<>> ELSE Append(Reverse(Tail(s)), Head(s))

\* ------------------------------------------------------ control signals
\* What a validator, middleware or handler can throw.
NoError == [type |-> "none", status |-> 0, message |-> "", url |-> "", issues |-> <<>>]
\* Faulty variant: no default for the status
RedirectErrorNoDefault(url, status) ==
  [type |-> "RedirectError", status |-> status,
   message |-> "Redirect to " \o url, url |-> url, issues |-> <<>>]

\* new RedirectError(url, status): status defaults to 302
RedirectError(url, status) ==
  [type |-> "RedirectError", status |-> IF status = 0 THEN 302 ELSE status,
   message |-> "Redirect to " \o url, url |-> url, issues |-> <<>>]
\* new NotFoundError(message)
NotFoundError(message) ==
  [type |-> "NotFoundError", status |-> 0, message |-> message, url |-> "", issues |-> <<>>]
\* Faulty variant: the status is not kept
HttpErrorDropsStatus(status, message) ==
  [type |-> "HttpError", status |-> 500, message |-> message, url |-> "", issues |-> <<>>]

\* new HttpError(status, message)
HttpError(status, message) ==
  [type |-> "HttpError", status |-> status, message |-> message, url |-> "", issues |-> <<>>]
\* what z.object(...).parse throws: the issues name the failing paths
ZodError(issues) ==
  [type |-> "ZodError", status |-> 0, message |-> "ZodError", url |-> "", issues |-> issues]
\* any other exception
PlainError(message) ==
  [type |-> "Error", status |-> 0, message |-> message, url |-> "", issues |-> <<>>]
\* what JSON.parse / request.json() throw on a malformed or missing body
SyntaxError == [type |-> "SyntaxError", status |-> 0, message |-> "JSON Parse error",
                url |-> "", issues |-> <<>>]

\* -------------------------------------------------------------- validators
Issue(path, code) == [path |-> path, code |-> code]

\* z.string().min(1) on one field of an object
StringMin1(v, path) ==
  IF v.t # "string" THEN <<Issue(path, "invalid_type")>>
  ELSE IF Len(v.s) < 1 THEN <<Issue(path, "too_small")>>
  ELSE <<>>

\* The issues schema.parse(input) reports; <<>> when the input is valid.
SchemaIssues(schema, input) ==
  IF input.t # "object" THEN <<Issue("", "invalid_type")>>
  ELSE CASE schema = "EchoInputSchema" -> StringMin1(input.message, "message")
         [] schema = "LoginSchema" -> StringMin1(input.username, "username")
         [] schema = "IdSchema" ->
              IF input.id.t # "number" THEN <<Issue("id", "invalid_type")>> ELSE <<>>

\* What schema.parse returns: z.object strips the keys the schema does not name.
SchemaOutput(schema, input) ==
  CASE schema = "EchoInputSchema" -> Obj(input.message, Undef, Undef)
    [] schema = "LoginSchema" -> Obj(Undef, input.username, Undef)
    [] schema = "IdSchema" -> Obj(Undef, Undef, input.id)

NoValidator == [kind |-> "none", name |-> ""]
\* validator(schema): a schema object is wrapped as (input) => schema.parse(input),
\* a plain function is kept as it is.
ValidatorFn(schema) ==
  IF schema.kind = "function" THEN schema
  ELSE [kind |-> "parse", name |-> schema.name]

ZodSchema(name) == [kind |-> "schema", name |-> name]
\* A hand-written validator: (input) => { if (typeof input !== "object")
\* throw new Error("object expected"); return input }
PlainValidator(name) == [kind |-> "function", name |-> name]

\* await config.validator(input): the value, or the exception thrown.
RunValidator(v, input) ==
  IF v.kind = "parse"
  THEN IF SchemaIssues(v.name, input) = <<>>
       THEN [ok |-> TRUE, value |-> SchemaOutput(v.name, input), error |-> NoError]
       ELSE [ok |-> FALSE, value |-> input, error |-> ZodError(SchemaIssues(v.name, input))]
  ELSE IF input.t = "object"
       THEN [ok |-> TRUE, value |-> input, error |-> NoError]
       ELSE [ok |-> FALSE, value |-> input, error |-> PlainError("object expected")]

\* ----------------------------------------------- programs of user code
\* The body of a middleware or of a handler, as the sequence of the calls it
\* makes into the library and of its awaits.
Op(op, a, v, n) == [op |-> op, a |-> a, v |-> v, n |-> n]
GetRequestHeaderOp(name) == Op("getRequestHeader", name, "", 0)
SetResponseHeaderOp(name, value) == Op("setResponseHeader", name, value, 0)
SetResponseStatusOp(status) == Op("setResponseStatus", "", "", status)
SetCookieOp(name, value, options) == Op("setCookie", name, value \o options, 0)
\* await on a promise that is already settled: the continuation is a microtask
AwaitPromiseOp == Op("await", "promise", "", 0)
\* await new Promise((r) => setTimeout(r, ms)): the continuation waits for a timer
AwaitTimerOp == Op("await", "timer", "", 0)
RedirectOp(url, status) == Op("redirect", url, "", status)
NotFoundOp(message) == Op("notFound", message, "", 0)
HttpErrorOp(status, message) == Op("httpError", message, "", status)
RequireBearerOp == Op("requireBearer", "", "", 0)
NextOp(data) == Op("next", data, "", 0)
ReturnOp == Op("return", "", "", 0)

\* createMiddleware(fn): the middlewares of server-fn.ts and of api.ts, and one
\* that writes a response header before it continues.
MiddlewareProgram(mw) ==
  CASE mw = "logMiddleware" -> <<NextOp(""), AwaitPromiseOp, ReturnOp>>
    [] mw = "timingMiddleware" -> <<NextOp(""), AwaitPromiseOp, ReturnOp>>
    [] mw = "authMiddleware" -> <<RequireBearerOp, NextOp("user"), ReturnOp>>
    [] mw = "stampMiddleware" ->
         <<SetResponseHeaderOp("x-stamp", "1"), NextOp(""), ReturnOp>>

PostIds == {1, 2, 3}

\* The handlers given to handler(fn), by what they do on a validated input.
HandlerProgram(h, input) ==
  CASE h = "getServerTime" -> <<ReturnOp>>
    [] h = "echo" ->
         <<GetRequestHeaderOp("user-agent"), SetResponseHeaderOp("x-echo-version", "1.0"),
           AwaitTimerOp, ReturnOp>>
    [] h = "slowOperation" -> <<AwaitTimerOp, ReturnOp>>
    [] h = "loginAndRedirect" ->
         IF input.username = Str(ADMIN)
         THEN <<SetCookieOp("session", "logged-in", "; Path=/; HttpOnly"), RedirectOp("/", 0)>>
         ELSE <<ReturnOp>>
    [] h = "getPostById" ->
         IF input.id.t = "number" /\ input.id.n \in PostIds
         THEN <<ReturnOp>>
         ELSE <<NotFoundOp("Post " \o ToString(input.id.n) \o " not found")>>
    [] h = "adminAction" -> <<AwaitTimerOp, SetResponseStatusOp(201), ReturnOp>>
    [] h = "transfer" ->
         IF input.username = Str(ADMIN)
         THEN <<RedirectOp("/done", 303)>>
         ELSE <<HttpErrorOp(403, "Forbidden")>>

\* What the handler returns.
NoResult == [of |-> "", original |-> <<>>, reversed |-> <<>>]
HandlerResult(h, input) ==
  IF h = "echo"
  THEN [of |-> h, original |-> input.message.s, reversed |-> Reverse(input.message.s)]
  ELSE [of |-> h, original |-> <<>>, reversed |-> <<>>]

\* ------------------------------------------------- builder and registry
FnName(n) == "fn_" \o ToString(n)

\* Faulty variant: the counter is not read
CreateServerFnSameName(counter, method) ==
  [name |-> FnName(0), method |-> method, validator |-> NoValidator,
   middlewares |-> <<>>, handler |-> ""]

\* createServerFn(options): a builder over a fresh config named by the counter
CreateServerFn(counter, method) ==
  [name |-> FnName(counter), method |-> method, validator |-> NoValidator,
   middlewares |-> <<>>, handler |-> ""]

\* Faulty variant: a validator already set is kept
BuilderValidatorKeepsFirst(config, schema) ==
  IF config.validator = NoValidator
    THEN [config EXCEPT !.validator = ValidatorFn(schema)]
    ELSE config

\* builder.validator(schema): a new stage whose config has this validator
BuilderValidator(config, schema) == [config EXCEPT !.validator = ValidatorFn(schema)]

\* Faulty variant: the middleware is put in front of the ones already there
BuilderMiddlewarePrepends(config, mw) == [config EXCEPT !.middlewares = <<mw>> \o @]

\* builder.middleware(mw): a new stage with mw appended
BuilderMiddleware(config, mw) == [config EXCEPT !.middlewares = Append(@, mw)]

\* builder.handler(fn): serverFnRegistry.set(config.name, {...config, handler: fn})
BuilderHandler(registry, config, fn) ==
  [n \in DOMAIN registry \cup {config.name} |->
     IF n = config.name THEN [config EXCEPT !.handler = fn] ELSE registry[n]]

RECURSIVE ApplyCalls(_, _)
\* the chained validator() / middleware() calls of one definition, in order
ApplyCalls(config, calls) ==
  IF calls = <<>> THEN config
  ELSE ApplyCalls(
         IF Head(calls).call = "validator"
         THEN BuilderValidator(config, Head(calls).arg)
         ELSE BuilderMiddleware(config, Head(calls).arg.name),
         Tail(calls))

V(schema) == [call |-> "validator", arg |-> schema]
M(mw) == [call |-> "middleware", arg |-> [kind |-> "middleware", name |-> mw]]
Def(method, calls, handler) == [method |-> method, calls |-> calls, handler |-> handler]

\* The definitions evaluated at start-up, in order.  The first five are those
\* of api.ts that differ in shape (setUserPreference, getUserPreference,
\* getPosts and getPost repeat the shapes of loginAndRedirect, getServerTime
\* and getPostById and are left out, so the counter names differ from those of
\* api.ts).  api.ts has no definition behind authMiddleware, none with a
\* plain-function validator, none that sets a status or throws HttpError:
\* adminAction and transfer are two callers of the same exported builder that do.
Definitions ==
  << Def("GET", <<>>, "getServerTime"),
     Def("POST", <<V(ZodSchema("EchoInputSchema"))>>, "echo"),
     Def("POST", <<M("logMiddleware"), M("timingMiddleware")>>, "slowOperation"),
     Def("POST", <<V(ZodSchema("LoginSchema"))>>, "loginAndRedirect"),
     Def("POST", <<V(ZodSchema("IdSchema"))>>, "getPostById"),
     Def("POST", <<V(ZodSchema("EchoInputSchema")), M("logMiddleware"), M("authMiddleware"),
                   M("stampMiddleware")>>, "adminAction"),
     Def("POST", <<V(PlainValidator("requireObject"))>>, "transfer") >>

EmptyRegistry == [n \in {} |-> CreateServerFn(0, "POST")]

RECURSIVE Register(_, _, _)
\* the module body of api.ts: each definition takes the next counter value
Register(registry, counter, defs) ==
  IF defs = <<>> THEN registry
  ELSE Register(
         BuilderHandler(registry,
                        ApplyCalls(CreateServerFn(counter, Head(defs).method), Head(defs).calls),
                        Head(defs).handler),
         counter + 1, Tail(defs))

StartupRegistry == Register(EmptyRegistry, 0, Definitions)

\* ------------------------------------------------------------ requests
\* What reaches handleServerFn (transport "http") or the callable returned by
\* handler() when it is called in the server process (transport "direct").
\*   shape  "named": /_server-fn/<name>;  "legacy": /_server-fn, {name, input} in the body
\*   body   "json": well-formed JSON;  "invalid": not JSON;  "empty": none
\*   auth   the request carries "authorization: Bearer ..."
Request(transport, method, shape, body, name, input, auth) ==
  [transport |-> transport, method |-> method, shape |-> shape, body |-> body,
   name |-> name, input |-> input, auth |-> auth]
NoRequest == Request("", "", "", "", "", NoInput, FALSE)

RegisteredNames == DOMAIN StartupRegistry
UnknownName == "nope"
GuardedNames == {n \in RegisteredNames : \E k \in 1..Len(StartupRegistry[n].middlewares) :
                   StartupRegistry[n].middlewares[k] = "authMiddleware"}

\* The requests of the model: for every procedure an input it accepts and,
\* where it validates, one it rejects; each way handleServerFn decodes a request.
Post(n, in) == Request("http", "POST", "named", "json", FnName(n), in, FALSE)
HttpRequests ==
  { \* GET /_server-fn/fn_0 without the input parameter, and with a malformed one
    Request("http", "GET", "named", "empty", FnName(0), NoInput, FALSE),
    Request("http", "GET", "named", "invalid", FnName(0), NoInput, FALSE),
    \* echo: valid, empty message, no body, malformed body
    Post(1, InMsgAbc), Post(1, InMsgEmpty),
    Request("http", "POST", "named", "empty", FnName(1), NoInput, FALSE),
    Request("http", "POST", "named", "invalid", FnName(1), NoInput, FALSE),
    \* slowOperation
    Post(2, InMsgAbc),
    \* loginAndRedirect: admin
    Post(3, InAdmin),
    \* getPostById: a post that does not exist
    Post(4, InId9),
    \* adminAction: without a bearer token, with one, and with an empty message
    Post(5, InMsgAbc),
    Request("http", "POST", "named", "json", FnName(5), InMsgAbc, TRUE),
    Post(5, InMsgEmpty),
    \* transfer: admin, another user, no body
    Post(6, InAdmin), Post(6, InMsgAbc),
    Request("http", "POST", "named", "empty", FnName(6), NoInput, FALSE),
    \* a name that is not registered
    Request("http", "POST", "named", "json", UnknownName, InMsgAbc, FALSE),
    \* the legacy shape: a registered name, no body, malformed body
    Request("http", "POST", "legacy", "json", FnName(1), InMsgAbc, FALSE),
    Request("http", "POST", "legacy", "empty", "", NoInput, FALSE),
    Request("http", "POST", "legacy", "invalid", "", NoInput, FALSE) }

\* serverFn(input) on the server: executeServerFn(config.name, input, mockRequest);
\* the mock request has no authorization header.
Direct(n, in) == Request("direct", StartupRegistry[FnName(n)].method, "", "", FnName(n), in, FALSE)
DirectCalls ==
  { Direct(1, InMsgAbc), Direct(1, InMsgEmpty), Direct(3, InAdmin) }

\* ------------------------------------------------------------- headers
\* A Headers object: a function from lower-cased names to values.  A value is
\* the sequence of the strings joined by ", "; `by` records the invocation
\* whose code wrote the string (0: the library).
Atom(v, by) == [v |-> v, by |-> by]
EmptyHeaders == [n \in {} |-> <<>>]
HeadersHas(h, name) == name \in DOMAIN h
HeadersSet(h, name, value) ==
  [n \in DOMAIN h \cup {name} |-> IF n = name THEN value ELSE h[n]]
JsonHeaders == HeadersSet(EmptyHeaders, "content-type", <<Atom("application/json", 0)>>)

\* ------------------------------------------------------------- state
\* ------------------------------------------------------------------ JSON
\* A JavaScript value a caller can pass: undefined, or a JSON value.  Strings
\* are sequences of characters; an array holds scalars; an object is held as
\* its entries in insertion order, key then value.
JsValue(t, b, n, s, items) == [t |-> t, b |-> b, n |-> n, s |-> s, items |-> items]
JsUndefined == JsValue("undefined", FALSE, 0, <<>>, <<>>)
JsNull == JsValue("null", FALSE, 0, <<>>, <<>>)
JsBool(b) == JsValue("boolean", b, 0, <<>>, <<>>)
JsNumber(n) == JsValue("number", FALSE, n, <<>>, <<>>)
JsString(s) == JsValue("string", FALSE, 0, s, <<>>)
JsArray(items) == JsValue("array", FALSE, 0, <<>>, items)
JsObject(entries) == JsValue("object", FALSE, 0, <<>>, entries)

Quote == "\""
Backslash == "\\"
Chars == {"a", Quote, Backslash}
JsonNumbers == {0, 1}
RECURSIVE SeqsUpTo(_, _)
SeqsUpTo(S, n) ==
  IF n = 0 THEN {<<>>}
  ELSE SeqsUpTo(S, n - 1) \cup {Append(q, x) : q \in {r \in SeqsUpTo(S, n - 1) : Len(r) = n - 1}, x \in S}
JsonStrings == {JsString(s) : s \in SeqsUpTo(Chars, MaxStringLen)}
JsonScalars == {JsNull, JsBool(TRUE), JsBool(FALSE)} \cup {JsNumber(n) : n \in JsonNumbers} \cup JsonStrings
JsonValues ==
  JsonScalars \cup {JsArray(q) : q \in SeqsUpTo(JsonScalars, MaxItems)}
              \cup {JsObject(<<>>)} \cup {JsObject(<<JsString(<<"a">>), v>>) : v \in JsonScalars}

RECURSIVE EscapeString(_)
\* the characters of a string literal: quote and backslash are escaped
EscapeString(s) ==
  IF s = <<>> THEN <<>>
  ELSE (IF Head(s) \in {Quote, Backslash} THEN <<Backslash, Head(s)>> ELSE <<Head(s)>>)
       \o EscapeString(Tail(s))

RECURSIVE JsonStringify(_)
RECURSIVE StringifyItems(_, _)
\* items separated by commas; in an object, key and value separated by a colon
StringifyItems(items, object) ==
  IF items = <<>> THEN <<>>
  ELSE IF object
  THEN JsonStringify(items[1]) \o <<":">> \o JsonStringify(items[2])
       \o (IF Len(items) > 2 THEN <<",">> \o StringifyItems(SubSeq(items, 3, Len(items)), TRUE) ELSE <<>>)
  ELSE JsonStringify(items[1])
       \o (IF Len(items) > 1 THEN <<",">> \o StringifyItems(Tail(items), FALSE) ELSE <<>>)

\* JSON.stringify(value): the text as a sequence of characters and of the
\* literals null, true, false and the numbers.  Not called on undefined.
JsonStringify(v) ==
  CASE v.t = "null" -> <<"null">>
    [] v.t = "boolean" -> IF v.b THEN <<"true">> ELSE <<"false">>
    [] v.t = "number" -> <<ToString(v.n)>>
    [] v.t = "string" -> <<Quote>> \o EscapeString(v.s) \o <<Quote>>
    [] v.t = "array" -> <<"[">> \o StringifyItems(v.items, FALSE) \o <<"]">>
    [] v.t = "object" -> <<"{">> \o StringifyItems(v.items, TRUE) \o <<"}">>

\* The result of parsing at a position: a value and the position after it,
\* or a failure.
Parsed(value, next) == [ok |-> TRUE, value |-> value, next |-> next]
ParseFailure == [ok |-> FALSE, value |-> JsUndefined, next |-> 0]

RECURSIVE ParseString(_, _, _)
\* the characters of a string literal from position p, up to the closing quote
ParseString(text, p, acc) ==
  IF p > Len(text) THEN ParseFailure
  ELSE IF text[p] = Quote THEN Parsed(JsString(acc), p + 1)
  ELSE IF text[p] = Backslash
  THEN IF p + 1 > Len(text) THEN ParseFailure
       ELSE ParseString(text, p + 2, Append(acc, text[p + 1]))
  ELSE ParseString(text, p + 1, Append(acc, text[p]))

RECURSIVE ParseValue(_, _)
RECURSIVE ParseItems(_, _, _, _)
\* the items of an array or the entries of an object, up to the closing bracket
ParseItems(text, p, acc, object) ==
  LET close == IF object THEN "}" ELSE "]"
      key == ParseValue(text, p)
      colon == object /\ key.ok /\ key.value.t = "string"
                 /\ key.next <= Len(text) /\ text[key.next] = ":"
      item == IF object THEN (IF colon THEN ParseValue(text, key.next + 1) ELSE ParseFailure)
              ELSE key
      items == IF object THEN acc \o <<key.value, item.value>> ELSE Append(acc, item.value) IN
  IF p > Len(text) THEN ParseFailure
  ELSE IF text[p] = close /\ acc = <<>>
  THEN Parsed(IF object THEN JsObject(<<>>) ELSE JsArray(<<>>), p + 1)
  ELSE IF ~item.ok \/ item.next > Len(text) THEN ParseFailure
  ELSE IF text[item.next] = close
  THEN Parsed(IF object THEN JsObject(items) ELSE JsArray(items), item.next + 1)
  ELSE IF text[item.next] = "," THEN ParseItems(text, item.next + 1, items, object)
  ELSE ParseFailure

\* one JSON value at position p
ParseValue(text, p) ==
  IF p > Len(text) THEN ParseFailure
  ELSE CASE text[p] = "null" -> Parsed(JsNull, p + 1)
         [] text[p] = "true" -> Parsed(JsBool(TRUE), p + 1)
         [] text[p] = "false" -> Parsed(JsBool(FALSE), p + 1)
         [] \E n \in 0..9 : text[p] = ToString(n) ->
              Parsed(JsNumber(CHOOSE n \in 0..9 : text[p] = ToString(n)), p + 1)
         [] text[p] = Quote -> ParseString(text, p + 1, <<>>)
         [] text[p] = "[" -> ParseItems(text, p + 1, <<>>, FALSE)
         [] text[p] = "{" -> ParseItems(text, p + 1, <<>>, TRUE)
         [] OTHER -> ParseFailure

\* JSON.parse(text): the value, or a SyntaxError
JsonParse(text) ==
  LET r == ParseValue(text, 1) IN
  IF r.ok /\ r.next = Len(text) + 1 THEN [ok |-> TRUE, value |-> r.value]
  ELSE [ok |-> FALSE, value |-> JsUndefined]

\* ------------------------------------------------- ssr.ts: route modes
\* A path or a route pattern, as its segments.  A segment is literal text
\* (possibly empty, as the last one of "/posts/") or a name after a colon.
\* Literal segments here are made of letters, digits and dashes, which stand
\* for themselves in a regular expression.
Literal(text) == [param |-> FALSE, text |-> text]
Named(name) == [param |-> TRUE, text |-> name]

\* { ssr?: true | false | 'data-only' }
RouteSSRConfig(ssr) == [ssr |-> ssr]
SSRModes == {"true", "false", "data-only", "undefined"}
\* return { ssr: true }
DefaultSSRConfig == RouteSSRConfig("true")

\* pattern.includes(':')
IncludesColon(pattern) == \E k \in 1..Len(pattern) : pattern[k].param

\* pattern.replace(/:[^/]+/g, '[^/]+'): per segment, the text to match or the
\* class [^/]+
PatternRegex(pattern) ==
  [k \in 1..Len(pattern) |->
     IF pattern[k].param THEN [class |-> TRUE, text |-> "[^/]+"]
     ELSE [class |-> FALSE, text |-> pattern[k].text]]

\* the text of a segment is not empty (a named one has its colon)
NonEmpty(segment) == segment.param \/ segment.text # ""

\* new RegExp('^' + ... + '$').test(path)
RegexTest(regex, path) ==
  /\ Len(regex) = Len(path)
  /\ \A k \in 1..Len(regex) :
       IF regex[k].class THEN NonEmpty(path[k])
       ELSE ~path[k].param /\ path[k].text = regex[k].text

\* routeSSRConfig.has(path), on the entries of the Map in insertion order
MapHas(entries, path) == \E k \in 1..Len(entries) : entries[k].path = path
MapGet(entries, path) ==
  entries[CHOOSE k \in 1..Len(entries) : entries[k].path = path].config
\* routeSSRConfig.set(path, config): a known key keeps its place
MapSet(entries, path, config) ==
  IF MapHas(entries, path)
  THEN [k \in 1..Len(entries) |->
          IF entries[k].path = path THEN [path |-> path, config |-> config] ELSE entries[k]]
  ELSE Append(entries, [path |-> path, config |-> config])

RECURSIVE FirstPatternMatch(_, _)
\* for (const [pattern, config] of routeSSRConfig.entries()) ...; return { ssr: true }
FirstPatternMatch(entries, path) ==
  IF entries = <<>> THEN DefaultSSRConfig
  ELSE IF IncludesColon(Head(entries).path) /\ RegexTest(PatternRegex(Head(entries).path), path)
  THEN Head(entries).config
  ELSE FirstPatternMatch(Tail(entries), path)

\* Faulty variant: the patterns are tried before the exact path
GetRouteSSRConfigPatternsFirst(entries, path) ==
  IF FirstPatternMatch(entries, path) # DefaultSSRConfig \/ ~MapHas(entries, path)
  THEN FirstPatternMatch(entries, path)
  ELSE MapGet(entries, path)

\* getRouteSSRConfig(path)
GetRouteSSRConfig(entries, path) ==
  IF MapHas(entries, path) THEN MapGet(entries, path) ELSE FirstPatternMatch(entries, path)

\* Faulty variant: config.ssr !== undefined
ShouldSSRUnlessUndefined(entries, path) == GetRouteSSRConfig(entries, path).ssr # "undefined"

\* shouldSSR(path): config.ssr !== false
ShouldSSR(entries, path) == GetRouteSSRConfig(entries, path).ssr # "false"
\* isDataOnlySSR(path): config.ssr === 'data-only'
IsDataOnlySSR(entries, path) == GetRouteSSRConfig(entries, path).ssr = "data-only"

\* the routes that are given a configuration, and the paths that are requested
RoutePatterns ==
  { <<Literal("admin")>>,
    <<Literal("posts"), Named("id")>>,
    <<Literal("posts"), Literal("1")>>,
    <<Named("section"), Literal("1")>> }
RequestPaths ==
  RoutePatterns \cup { <<Literal("posts"), Literal("2")>>,
                       <<Literal("posts"), Literal("")>>,
                       <<Literal("other")>> }

\* ------------------------------------------------------------- state
VARIABLES
  serverFnRegistry,   \* Map name -> config
  contextStorage,     \* the keys of Map symbol -> ServerFnContext
  contexts,           \* the ServerFnContext object made with each symbol
  currentContextKey,  \* symbol, or 0 for null
  pc,                 \* the await each invocation is parked at
  req,                \* its request; name and input as decoded
  hKey,               \* contextKey of its handleServerFn frame (0: none)
  eKey,               \* contextKey of its executeServerFn frame (0: none)
  validated,          \* validatedInput
  mwIdx,              \* index of the middleware the for loop is at
  mwData,             \* middlewareData
  ip,                 \* next operation of the running middleware or handler
  trace,              \* the validator, middlewares and handler it has entered
  wrote,              \* the keys of the contexts its writes went to
  own,                \* the status and headers its own code has set
  thrown,             \* the exception in flight / left to the caller
  result,             \* what executeServerFn resolved to
  response,           \* the Response of handleServerFn
  isDev,              \* process.env.NODE_ENV !== "production"
  \* one call of a procedure without a validator, followed from the caller to
  \* the handler
  rtStage,            \* how far the call has got
  rtWindow,           \* typeof window !== "undefined": the caller is a browser
  rtInput,            \* the caller's input
  rtBody,             \* the body of the POST request
  rtDecoded,          \* input as executeServerFn is given it
  rtArg,              \* input as the handler is given it
  \* ssr.ts and the page requests of server.tsx
  routeSSRConfig,     \* Map path -> RouteSSRConfig, as its entries in order
  ssrStage,           \* the await the page request is parked at
  ssrUrl,             \* pathname and search of the request
  ssrFails,           \* the routine that will fail for this request, if any
  ssrLoaderData,      \* what the loaders of the matched routes return
  ssrCalled,          \* the routines the request has invoked
  ssrLoaded,          \* the data router.load() has acquired
  ssrResponse,        \* the Response of fetch
  ssrThrown,          \* an exception has left fetch
  \* ssr.ts: one deferred value and one awaitDeferred call on it
  dfPromise,          \* the promise given to defer: state, value, settled at
  dfDeferred,         \* the DeferredValue: status, value, error
  dfJobs,             \* the microtask queue: promise reaction jobs, in order
  dfCall,             \* the awaitDeferred call: stage, timeoutMs, called at
  dfOutcome,          \* what the promise of awaitDeferred settled to, and when
  dfClock,            \* milliseconds since defer
  \* server-fn.ts: procedures created with a name after start-up
  serverFnCounter,    \* the counter behind the generated names
  nmCreated,          \* the createNamedServerFn calls: arguments and callable
  nmExecuted,         \* the last executeServerFn(name) by one of those names
  \* server-fn.ts: builder stages used after start-up
  bdStages,           \* the builder stages made: config, and the validator() calls behind it
  bdServerFns,        \* the callables handler() returned, and what each was built with
  bdBuilt,            \* name -> the stage whose handler() call registered it last
  bdInvoked,          \* the last invocation of one of those callables
  \* server-fn.ts: two independent executions of the definitions
  runs,               \* per execution: its serverFnCounter and the definitions it has made
  \* server-fn.ts: the data passed along one middleware chain
  chMiddlewares,      \* config.middlewares, each by what it passes to next and what it returns
  chIdx,              \* the middleware the for loop is at
  chStage,            \* where the loop is: before a middleware, in it, after its next()
  middlewareData,     \* middlewareData
  chReceived,         \* the `data` each middleware was given
  chNextResult,       \* what next() returned to the running middleware
  chRequest,          \* request
  chValidatedInput,   \* validatedInput
  chHandlerArgs,      \* the argument config.handler was called with
  \* api-routes.ts
  apiRoutes,          \* the registry: the routes in the order they are tried
  apiRequest,         \* the last request given to handleApiRoute: pathname, method
  apiResponse,        \* what it returned: status, and the route whose handler ran
  \* ssr.ts: one stream through createDeferredTransform
  tfDocument,         \* the document written to the stream
  tfChunks,           \* the chunks of it not yet written
  deferredPromises,   \* Map key -> promise, as its entries in order: key, state, data
  buffer,             \* buffer
  bodyEnded,          \* bodyEnded
  tfOutput,           \* what has been enqueued, joined
  tfClosed            \* the stream has been flushed

vars == <<serverFnRegistry, contextStorage, contexts, currentContextKey, pc, req,
          hKey, eKey, validated, mwIdx, mwData, ip, trace, wrote, own, thrown, result, response,
          isDev, rtStage, rtWindow, rtInput, rtBody, rtDecoded, rtArg,
          routeSSRConfig, ssrStage, ssrUrl, ssrFails, ssrLoaderData, ssrCalled, ssrLoaded,
          ssrResponse, ssrThrown,
          dfPromise, dfDeferred, dfJobs, dfCall, dfOutcome, dfClock,
          serverFnCounter, nmCreated, nmExecuted,
          bdStages, bdServerFns, bdBuilt, bdInvoked,
          runs,
          chMiddlewares, chIdx, chStage, middlewareData, chReceived, chNextResult,
          chRequest, chValidatedInput, chHandlerArgs,
          apiRoutes, apiRequest, apiResponse,
          tfDocument, tfChunks, deferredPromises, buffer, bodyEnded, tfOutput, tfClosed>>
fnVars == <<serverFnRegistry, contextStorage, contexts, currentContextKey, pc, req,
            hKey, eKey, validated, mwIdx, mwData, ip, trace, wrote, own, thrown, result,
            response>>
rtVars == <<rtStage, rtWindow, rtInput, rtBody, rtDecoded, rtArg>>
ssrVars == <<routeSSRConfig, ssrStage, ssrUrl, ssrFails, ssrLoaderData, ssrCalled, ssrLoaded,
             ssrResponse, ssrThrown>>
dfVars == <<dfPromise, dfDeferred, dfJobs, dfCall, dfOutcome, dfClock>>
nmVars == <<serverFnCounter, nmCreated, nmExecuted>>
bdVars == <<bdStages, bdServerFns, bdBuilt, bdInvoked>>
rnVars == <<runs>>
chVars == <<chMiddlewares, chIdx, chStage, middlewareData, chReceived, chNextResult,
           chRequest, chValidatedInput, chHandlerArgs>>
apVars == <<apiRoutes, apiRequest, apiResponse>>
tfVars == <<tfDocument, tfChunks, deferredPromises, buffer, bodyEnded, tfOutput, tfClosed>>

NoResponse == [status |-> 0, headers |-> EmptyHeaders,
               body |-> [kind |-> "none", error |-> "", details |-> <<>>, data |-> NoResult]]
JsonBody(data) == [kind |-> "json", error |-> "", details |-> <<>>, data |-> data]
ErrorBody(error, details) == [kind |-> "json", error |-> error, details |-> details, data |-> NoResult]
NullBody == [kind |-> "null", error |-> "", details |-> <<>>, data |-> NoResult]

\* { request, headers: request.headers, responseHeaders, responseStatus: 200 }
NewContext(i, headers) ==
  [request |-> i, responseHeaders |-> headers, responseStatus |-> 200, statusBy |-> 0]

\* A page response: status, the kind of document, the bootstrap state in it
\* (__INITIAL_URL__ and the entries of __PREFETCHED_DATA__) and, on an error
\* page, the text shown.
NoUrl == [path |-> <<>>, search |-> ""]
NoPage == [status |-> 0, kind |-> "none", url |-> NoUrl, data |-> {}, detail |-> ""]
Page(status, kind, url, data, detail) ==
  [status |-> status, kind |-> kind, url |-> url, data |-> data, detail |-> detail]

\* no configuration yet and no page request
SsrIdle ==
  /\ routeSSRConfig = <<>>
  /\ ssrStage = "idle"
  /\ ssrUrl = NoUrl
  /\ ssrFails = "none"
  /\ ssrLoaderData = {}
  /\ ssrCalled = {}
  /\ ssrLoaded = {}
  /\ ssrResponse = NoPage
  /\ ssrThrown = FALSE

\* A promise: pending, or settled with a value or a reason at some time.
PendingPromise == [state |-> "pending", value |-> "", at |-> 0]
SettledPromise(state, value, at) == [state |-> state, value |-> value, at |-> at]
\* { promise, status: 'pending' }; value and error are set by the callbacks
NoDeferred == [status |-> "none", value |-> "", error |-> ""]
NewDeferred == [status |-> "pending", value |-> "", error |-> ""]
\* the call: its timeoutMs, when it was made, and the timer it has set
NoCall == [stage |-> "none", timeoutMs |-> 0, at |-> 0, timer |-> "none"]
\* what the call came to, when, and whether the promise had settled by then
NoOutcome == [kind |-> "none", value |-> "", at |-> 0, settled |-> FALSE]
Outcome(kind, value, at, settled) ==
  [kind |-> kind, value |-> value, at |-> at, settled |-> settled]

\* executeServerFn(name) of a procedure whose handler takes no await: the
\* user function it ran, or the error it threw
NoExecution == [name |-> "", ran |-> "", thrown |-> NoError]

\* the counter after the definitions of start-up; nothing created by name
NamedIdle ==
  /\ serverFnCounter = Len(Definitions)
  /\ nmCreated = <<>>
  /\ nmExecuted = NoExecution

\* a callable is invoked with an input; the outcome of the validation step
NoInvocation ==
  [name |-> "", validators |-> <<>>, input |-> NoInput, ok |-> TRUE, value |-> NoInput,
   error |-> NoError]

\* no builder used since start-up
BuilderIdle ==
  /\ bdStages = {}
  /\ bdServerFns = <<>>
  /\ bdBuilt = [n \in {} |-> <<>>]
  /\ bdInvoked = NoInvocation

\* two executions of the program, each with its own module state
Executions == {1, 2}
NewRun == [serverFnCounter |-> 0, defined |-> <<>>]

\* no definition made in either execution
RunsIdle == runs = [e \in Executions |-> NewRun]

\* undefined, and the empty object middlewareData starts as
UndefinedData == "undefined"
EmptyData == "{}"

\* no chain is being followed
\* config.handler has not been called
NoHandlerArgs == [input |-> "", context |-> [request |-> "", responseStatus |-> 0]]
ChainIdle ==
  /\ chMiddlewares = <<>>
  /\ chIdx = 0
  /\ chStage = "idle"
  /\ middlewareData = EmptyData
  /\ chReceived = <<>>
  /\ chNextResult = UndefinedData
  /\ chRequest = ""
  /\ chValidatedInput = ""
  /\ chHandlerArgs = NoHandlerArgs

NoApiRequest == [pathname |-> <<>>, method |-> ""]
\* status 0: handleApiRoute returned null
ApiResponse(status, route) == [status |-> status, route |-> route]
NoApiResponse == ApiResponse(0, <<>>)

\* no API route defined, no request
ApiIdle ==
  /\ apiRoutes = <<>>
  /\ apiRequest = NoApiRequest
  /\ apiResponse = NoApiResponse

\* no stream is being transformed
TransformIdle ==
  /\ tfDocument = <<>>
  /\ tfChunks = <<>>
  /\ deferredPromises = <<>>
  /\ buffer = <<>>
  /\ bodyEnded = FALSE
  /\ tfOutput = <<>>
  /\ tfClosed = TRUE

\* no deferred value has been made
DeferredIdle ==
  /\ dfPromise = PendingPromise
  /\ dfDeferred = NoDeferred
  /\ dfJobs = <<>>
  /\ dfCall = NoCall
  /\ dfOutcome = NoOutcome
  /\ dfClock = 0

\* no call is being followed
RoundTripIdle ==
  /\ rtStage = "idle"
  /\ rtWindow = FALSE
  /\ rtInput = JsUndefined
  /\ rtBody = <<>>
  /\ rtDecoded = JsUndefined
  /\ rtArg = JsUndefined

\* the module state of server-fn.ts after start-up, no invocation yet
ServerFnInit ==
  /\ serverFnRegistry = StartupRegistry
  /\ contextStorage = {}
  /\ contexts = [k \in {} |-> NewContext(0, EmptyHeaders)]
  /\ currentContextKey = 0
  /\ pc = [i \in Inv |-> "idle"]
  /\ req = [i \in Inv |-> NoRequest]
  /\ hKey = [i \in Inv |-> 0]
  /\ eKey = [i \in Inv |-> 0]
  /\ validated = [i \in Inv |-> NoInput]
  /\ mwIdx = [i \in Inv |-> 0]
  /\ mwData = [i \in Inv |-> ""]
  /\ ip = [i \in Inv |-> 0]
  /\ trace = [i \in Inv |-> <<>>]
  /\ wrote = [i \in Inv |-> {}]
  /\ own = [i \in Inv |-> NewContext(i, EmptyHeaders)]
  /\ thrown = [i \in Inv |-> NoError]
  /\ result = [i \in Inv |-> NoResult]
  /\ response = [i \in Inv |-> NoResponse]

Init ==
  /\ ServerFnInit
  /\ isDev \in BOOLEAN
  /\ RoundTripIdle
  /\ SsrIdle
  /\ DeferredIdle
  /\ NamedIdle
  /\ BuilderIdle
  /\ RunsIdle
  /\ ChainIdle
  /\ ApiIdle
  /\ TransformIdle

\* The state as one record: the steps below are functions from state to state,
\* and an action runs the steps of one invocation up to its next await.
\* `yield` is set by the step that reaches an await (or the end).
State ==
  [serverFnRegistry |-> serverFnRegistry, contextStorage |-> contextStorage,
   contexts |-> contexts, currentContextKey |-> currentContextKey, pc |-> pc, req |-> req,
   hKey |-> hKey, eKey |-> eKey, validated |-> validated, mwIdx |-> mwIdx, mwData |-> mwData,
   ip |-> ip, trace |-> trace, wrote |-> wrote, own |-> own, thrown |-> thrown, result |-> result,
   response |-> response, yield |-> FALSE]

\* Symbol("context"): a key no other call has.  Every invocation makes at most
\* one in handleServerFn and one in executeServerFn; 0 stands for null.
Symbol(i, frame) == IF frame = "handleServerFn" THEN 2 * i - 1 ELSE 2 * i

\* the object behind a symbol: created, or updated in place
PutContext(objs, k, ctx) ==
  [j \in DOMAIN objs \cup {k} |-> IF j = k THEN ctx ELSE objs[j]]

Config(i, S) == S.serverFnRegistry[S.req[i].name]

\* ------------------------------------------------------ handleServerFn
\* The body handleServerFn decodes: undefined when there is none.
DecodedInput(r) == IF r.body = "json" THEN r.input ELSE NoInput

\* name and input as handleServerFn passes them on
Decoded(r) == Request(r.transport, r.method, "", "", r.name, DecodedInput(r), r.auth)

\* JSON.parse(inputParam) / JSON.parse(body) / request.json() throw
DecodeThrows(r) ==
  \/ r.body = "invalid"
  \/ r.shape = "legacy" /\ r.body = "empty"

\* The input is decoded outside the try block: an exception here rejects the
\* promise fetch() returned to Bun.serve.  Otherwise the context of the
\* response is set up and executeServerFn is called.
HandleDecode(i, S) ==
  IF DecodeThrows(S.req[i])
  THEN [S EXCEPT !.thrown[i] = SyntaxError, !.pc[i] = "done", !.yield = TRUE]
  ELSE LET k == Symbol(i, "handleServerFn") IN
       [S EXCEPT !.req[i] = Decoded(@),
                 !.hKey[i] = k,
                 !.currentContextKey = k,
                 !.contexts = PutContext(@, k, NewContext(i, JsonHeaders)),
                 !.contextStorage = @ \cup {k},
                 !.pc[i] = "x_lookup"]

\* ------------------------------------------------------ executeServerFn
\* Where control goes when executeServerFn has settled: to the awaiting
\* handleServerFn, or back to the caller of the callable.
AfterExecute(r, error) ==
  IF r.transport = "direct" THEN "done"
  ELSE IF error.type = "none" THEN "h_respond" ELSE "h_catch"

\* Faulty variant: an unknown name raises a plain Error
ExecuteLookupPlainError(i, S) ==
  IF S.req[i].name \notin DOMAIN S.serverFnRegistry
  THEN LET e == PlainError("Unknown server function: " \o S.req[i].name) IN
       [S EXCEPT !.thrown[i] = e, !.pc[i] = AfterExecute(S.req[i], e), !.yield = TRUE]
  ELSE LET k == Symbol(i, "executeServerFn") IN
       [S EXCEPT !.eKey[i] = k,
                 !.currentContextKey = k,
                 !.contexts = PutContext(@, k, NewContext(i, EmptyHeaders)),
                 !.contextStorage = @ \cup {k},
                 !.pc[i] = "x_validate"]

\* serverFnRegistry.get(name); throw NotFoundError, or set up the context
ExecuteLookup(i, S) ==
  IF S.req[i].name \notin DOMAIN S.serverFnRegistry
  THEN LET e == NotFoundError("Unknown server function: " \o S.req[i].name) IN
       [S EXCEPT !.thrown[i] = e, !.pc[i] = AfterExecute(S.req[i], e), !.yield = TRUE]
  ELSE LET k == Symbol(i, "executeServerFn") IN
       [S EXCEPT !.eKey[i] = k,
                 !.currentContextKey = k,
                 !.contexts = PutContext(@, k, NewContext(i, EmptyHeaders)),
                 !.contextStorage = @ \cup {k},
                 !.pc[i] = "x_validate"]

\* Faulty variant: the input goes to the chain unvalidated
ExecuteValidateSkipped(i, S) ==
  [S EXCEPT !.validated[i] = S.req[i].input, !.pc[i] = "x_chain"]

\* if (config.validator) validatedInput = await config.validator(input)
\* A validator that throws does so before the await: finally runs at once.
ExecuteValidate(i, S) ==
  IF Config(i, S).validator.kind = "none"
  THEN [S EXCEPT !.validated[i] = S.req[i].input, !.pc[i] = "x_chain"]
  ELSE LET r == RunValidator(Config(i, S).validator, S.req[i].input) IN
       IF r.ok
       THEN [S EXCEPT !.trace[i] = Append(@, "validator"), !.validated[i] = r.value,
                      !.pc[i] = "x_chain", !.yield = TRUE]
       ELSE [S EXCEPT !.trace[i] = Append(@, "validator"), !.thrown[i] = r.error,
                      !.pc[i] = "x_finally"]

\* for (const mw of config.middlewares) ... mw.fn({request, data, next}); then
\* config.handler({input: validatedInput, context})
ExecuteChain(i, S) ==
  IF S.mwIdx[i] < Len(Config(i, S).middlewares)
  THEN [S EXCEPT !.mwIdx[i] = @ + 1,
                 !.trace[i] = Append(@, Config(i, S).middlewares[S.mwIdx[i] + 1]),
                 !.ip[i] = 1, !.pc[i] = "x_mw"]
  ELSE IF Config(i, S).handler = ""
  THEN [S EXCEPT !.thrown[i] = PlainError("No handler defined for server function"),
                 !.pc[i] = "x_finally"]
  ELSE [S EXCEPT !.trace[i] = Append(@, "handler"), !.ip[i] = 1, !.pc[i] = "x_handler"]

\* Faulty variant: the finally block deletes the entry of the current key
ExecuteFinallyDeletesCurrent(i, S) ==
  [S EXCEPT !.contextStorage = @ \ {S.currentContextKey},
            !.currentContextKey = 0,
            !.pc[i] = AfterExecute(S.req[i], S.thrown[i]),
            !.yield = TRUE]

\* finally { contextStorage.delete(contextKey); currentContextKey = null }
ExecuteFinally(i, S) ==
  [S EXCEPT !.contextStorage = @ \ {S.eKey[i]},
            !.currentContextKey = 0,
            !.pc[i] = AfterExecute(S.req[i], S.thrown[i]),
            !.yield = TRUE]

\* ------------------------------------------------------ user code
Program(i, S) ==
  IF S.pc[i] = "x_mw" THEN MiddlewareProgram(Config(i, S).middlewares[S.mwIdx[i]])
  ELSE HandlerProgram(Config(i, S).handler, S.validated[i])
CurrentOp(i, S) == Program(i, S)[S.ip[i]]

ContextOps == {"getRequestHeader", "setResponseHeader", "setResponseStatus", "setCookie"}
ThrowOps == {"redirect", "notFound", "httpError"}

\* getRequestContext(): the current key, or the message of the Error thrown
GetRequestContext(S) ==
  IF S.currentContextKey = 0
  THEN [key |-> 0, error |-> "getRequestContext() must be called within a server function"]
  ELSE IF S.currentContextKey \notin S.contextStorage
  THEN [key |-> 0, error |-> "No request context available"]
  ELSE [key |-> S.currentContextKey, error |-> ""]

\* setCookie: `${existing}, ${cookie}` when a Set-Cookie is there already
CookieValue(h, cookie) ==
  IF HeadersHas(h, "set-cookie") THEN Append(h["set-cookie"], cookie) ELSE <<cookie>>

\* what the utility does to the context object it got
ApplyContextOp(ctx, op, i) ==
  CASE op.op = "getRequestHeader" -> ctx
    [] op.op = "setResponseHeader" ->
         [ctx EXCEPT !.responseHeaders = HeadersSet(@, op.a, <<Atom(op.v, i)>>)]
    [] op.op = "setResponseStatus" ->
         [ctx EXCEPT !.responseStatus = op.n, !.statusBy = i]
    [] op.op = "setCookie" ->
         [ctx EXCEPT !.responseHeaders =
            HeadersSet(@, "set-cookie", CookieValue(@, Atom(op.a \o "=" \o op.v, i)))]

\* An exception in a middleware or a handler rejects its promise; the await in
\* executeServerFn rethrows it into the finally block.
Raise(i, S, error) == [S EXCEPT !.thrown[i] = error, !.pc[i] = "x_finally", !.yield = TRUE]

\* getRequestHeader / setResponseHeader / setResponseStatus / setCookie, called
\* by a middleware or a handler: all go through getRequestContext().
ContextOp(i, S) ==
  LET g == GetRequestContext(S)
      op == CurrentOp(i, S) IN
  IF g.error # "" THEN Raise(i, S, PlainError(g.error))
  ELSE [S EXCEPT !.contexts[g.key] = ApplyContextOp(@, op, i),
                 !.wrote[i] = IF op.op = "getRequestHeader" THEN @ ELSE @ \cup {g.key},
                 !.own[i] = ApplyContextOp(@, op, i),
                 !.ip[i] = @ + 1]

\* an await inside user code: the thread is given up
AwaitStep(i, S) == [S EXCEPT !.ip[i] = @ + 1, !.yield = TRUE]

\* authMiddleware's check of request.headers.get("authorization")
RequireBearer(i, S) ==
  IF S.req[i].auth THEN [S EXCEPT !.ip[i] = @ + 1]
  ELSE Raise(i, S, HttpError(401, "Unauthorized"))

\* next(data): middlewareData = data ?? middlewareData
CallNext(i, S) ==
  [S EXCEPT !.mwData[i] = IF CurrentOp(i, S).a = "" THEN @ ELSE CurrentOp(i, S).a,
            !.ip[i] = @ + 1]

Signal(op) ==
  CASE op.op = "redirect" -> RedirectError(op.a, op.n)
    [] op.op = "notFound" -> NotFoundError(op.a)
    [] op.op = "httpError" -> HttpError(op.n, op.a)

\* redirect(url, status) / notFound(message) / throw new HttpError(status, message)
Throw(i, S) == Raise(i, S, Signal(CurrentOp(i, S)))

\* a middleware returns what next() gave it: the loop goes on; the handler
\* returns: executeServerFn resolves with its value
Return(i, S) ==
  IF S.pc[i] = "x_mw"
  THEN [S EXCEPT !.pc[i] = "x_chain", !.yield = TRUE]
  ELSE [S EXCEPT !.result[i] = HandlerResult(Config(i, S).handler, S.validated[i]),
                 !.pc[i] = "x_finally", !.yield = TRUE]

\* one operation of the middleware or handler that is running
UserOp(i, S) ==
  LET op == CurrentOp(i, S).op IN
  CASE op \in ContextOps -> ContextOp(i, S)
    [] op = "await" -> AwaitStep(i, S)
    [] op = "requireBearer" -> RequireBearer(i, S)
    [] op = "next" -> CallNext(i, S)
    [] op \in ThrowOps -> Throw(i, S)
    [] op = "return" -> Return(i, S)

\* ------------------------------------------- handleServerFn: the response
\* String(error) of an Error: `${name}: ${message}`
StringOf(error) == error.type \o ": " \o error.message

\* { Location: error.url, ...Object.fromEntries(context.responseHeaders) }
RedirectHeaders(url, h) ==
  [n \in DOMAIN h \cup {"location"} |->
     IF n = "location"
     THEN <<Atom(url, 0)>> \o (IF HeadersHas(h, "location") THEN h["location"] ELSE <<>>)
     ELSE h[n]]

Response(status, headers, body) == [status |-> status, headers |-> headers, body |-> body]

\* the catch chain of handleServerFn
ErrorResponse(error, ctx) ==
  CASE error.type = "RedirectError" ->
         Response(error.status, RedirectHeaders(error.url, ctx.responseHeaders), NullBody)
    [] error.type = "NotFoundError" -> Response(404, JsonHeaders, ErrorBody(error.message, <<>>))
    [] error.type = "HttpError" ->
         Response(error.status, JsonHeaders, ErrorBody(error.message, <<>>))
    [] error.type = "ZodError" ->
         Response(400, JsonHeaders, ErrorBody("Validation failed", error.issues))
    [] OTHER -> Response(500, JsonHeaders, ErrorBody(StringOf(error), <<>>))

\* new Response(JSON.stringify(result), {status: context.responseStatus,
\* headers: context.responseHeaders})
SuccessResponse(data, ctx) == Response(ctx.responseStatus, ctx.responseHeaders, JsonBody(data))

\* finally { contextStorage.delete(contextKey); currentContextKey = null }
HandleFinally(i, S) ==
  [S EXCEPT !.contextStorage = @ \ {S.hKey[i]},
            !.currentContextKey = 0,
            !.pc[i] = "done",
            !.yield = TRUE]

\* return new Response(...) in the try block, then the finally block
HandleRespond(i, S) ==
  HandleFinally(i, [S EXCEPT !.response[i] = SuccessResponse(S.result[i], S.contexts[S.hKey[i]])])

\* catch (error) { ... } finally { ... }
HandleCatch(i, S) ==
  HandleFinally(i, [S EXCEPT !.response[i] = ErrorResponse(S.thrown[i], S.contexts[S.hKey[i]]),
                             !.thrown[i] = NoError])

\* ------------------------------------------- the callable in the browser
\* error.message of `await response.json().catch(() => ({message: "Server error"}))`:
\* the bodies handleServerFn writes are objects with the keys error and
\* details (or the handler's data), none has a key message; a body that is
\* not JSON gives the fallback object.
ParsedMessage(body) == IF body.kind = "json" THEN "" ELSE "Server error"

\* handleResponse(response): fetch has followed a redirect (the page is left),
\* or the status is not ok (an Error is thrown), or the JSON body is returned.
HandleResponse(r) ==
  IF r.status \in 300..399
  THEN [kind |-> "redirected", message |-> "", data |-> NoResult]
  ELSE IF r.status \notin 200..299
  THEN [kind |-> "error",
        message |-> IF ParsedMessage(r.body) # "" THEN ParsedMessage(r.body)
                    ELSE "HTTP " \o ToString(r.status),
        data |-> NoResult]
  ELSE [kind |-> "data", message |-> "", data |-> r.body.data]

\* ------------------------------------------------------------ scheduling
\* The step an invocation takes from where it stands.
Step(i, S) ==
  CASE S.pc[i] = "h_decode" -> HandleDecode(i, S)
    [] S.pc[i] = "x_lookup" -> ExecuteLookup(i, S)
    [] S.pc[i] = "x_validate" -> ExecuteValidate(i, S)
    [] S.pc[i] = "x_chain" -> ExecuteChain(i, S)
    [] S.pc[i] \in {"x_mw", "x_handler"} -> UserOp(i, S)
    [] S.pc[i] = "x_finally" -> ExecuteFinally(i, S)
    [] S.pc[i] = "h_respond" -> HandleRespond(i, S)
    [] S.pc[i] = "h_catch" -> HandleCatch(i, S)

RECURSIVE RunToAwait(_, _)
\* JavaScript runs an invocation without interruption up to its next await.
RunToAwait(i, S) ==
  LET T == Step(i, S) IN IF T.yield THEN T ELSE RunToAwait(i, T)

Becomes(S) ==
  /\ serverFnRegistry' = S.serverFnRegistry
  /\ contextStorage' = S.contextStorage
  /\ contexts' = S.contexts
  /\ currentContextKey' = S.currentContextKey
  /\ pc' = S.pc
  /\ req' = S.req
  /\ hKey' = S.hKey
  /\ eKey' = S.eKey
  /\ validated' = S.validated
  /\ mwIdx' = S.mwIdx
  /\ mwData' = S.mwData
  /\ ip' = S.ip
  /\ trace' = S.trace
  /\ wrote' = S.wrote
  /\ own' = S.own
  /\ thrown' = S.thrown
  /\ result' = S.result
  /\ response' = S.response
  /\ isDev' = isDev
  /\ UNCHANGED <<rtVars, ssrVars, dfVars, nmVars, bdVars, rnVars, chVars, apVars, tfVars>>

\* Invocations are numbered in the order they arrive.
Arrives(i) == pc[i] = "idle" /\ \A j \in Inv : j < i => pc[j] # "idle"

\* The continuation of the invocation is in the microtask queue: it is parked
\* at an await of the library (on the validator, on mw.fn, on the handler, on
\* executeServerFn) or at `await next()`, all on promises already settled.
\* Otherwise a parked invocation waits for I/O (its body) or for a timer.
Queued(i) ==
  \/ pc[i] \in {"x_chain", "x_finally", "h_respond", "h_catch"}
  \/ pc[i] \in {"x_mw", "x_handler"} /\ Program(i, State)[ip[i] - 1].a = "promise"
\* The event loop takes the next request or timer only when no microtask is left.
QueueEmpty == \A j \in Inv : ~Queued(j)

\* Bun.serve's fetch -> handleServerFn(request).  A GET to a named path reads
\* its input from the URL and runs on; any other request awaits its body first.
HandleServerFn(i, r) ==
  /\ Arrives(i)
  /\ QueueEmpty
  /\ LET S == [State EXCEPT !.req[i] = r, !.pc[i] = "h_decode"] IN
     Becomes(IF r.method = "GET" /\ r.shape = "named" THEN RunToAwait(i, S) ELSE S)

\* serverFn(input) with typeof window === "undefined":
\* executeServerFn(config.name, input, mockRequest).  The caller is server code
\* that may make several calls before it gives up the thread, so a call may
\* start while continuations of earlier calls are queued.
CallServerFn(i, r) ==
  /\ Arrives(i)
  /\ Becomes(RunToAwait(i, [State EXCEPT !.req[i] = r, !.pc[i] = "x_lookup"]))

\* The event loop resumes an invocation that is parked at an await: a queued
\* continuation, or, when none is queued, one whose body or timer is ready.
Resume(i) ==
  /\ pc[i] \notin {"idle", "done"}
  /\ Queued(i) \/ QueueEmpty
  /\ Becomes(RunToAwait(i, State))

Next ==
  \E i \in Inv :
    \/ \E r \in HttpRequests : HandleServerFn(i, r)
    \/ \E r \in DirectCalls : CallServerFn(i, r)
    \/ Resume(i)

Spec == Init /\ [][Next]_vars

\* ------------------------------------------- an input on its way
\* The caller calls serverFn(input), of a POST procedure without a validator.
\* In the server process the input goes to executeServerFn as it is; in a
\* browser it is sent as the body of POST /_server-fn/<name>.
RoundTripInit ==
  /\ ServerFnInit
  /\ isDev = TRUE
  /\ rtStage = "called"
  /\ rtWindow \in BOOLEAN
  /\ rtInput \in JsonValues \cup {JsUndefined}
  /\ rtBody = <<>>
  /\ rtDecoded = JsUndefined
  /\ rtArg = JsUndefined
  /\ SsrIdle
  /\ DeferredIdle
  /\ NamedIdle
  /\ BuilderIdle
  /\ RunsIdle
  /\ ChainIdle
  /\ ApiIdle
  /\ TransformIdle

\* body: JSON.stringify(input); fetch sends no body when that is undefined
RequestBody(input) == IF input.t = "undefined" THEN <<>> ELSE JsonStringify(input)

\* serverFn(input) in the server process: executeServerFn(config.name, input, mockRequest)
CallInProcess ==
  /\ rtStage = "called" /\ ~rtWindow
  /\ rtDecoded' = rtInput
  /\ rtStage' = "executing"
  /\ UNCHANGED <<rtWindow, rtInput, rtBody, rtArg>>

\* serverFn(input) in a browser: fetch(url, {method: "POST", headers, body})
CallRemote ==
  /\ rtStage = "called" /\ rtWindow
  /\ rtBody' = RequestBody(rtInput)
  /\ rtStage' = "sent"
  /\ UNCHANGED <<rtWindow, rtInput, rtDecoded, rtArg>>

\* Faulty variant: JSON.parse(body) || undefined, which loses null, false, 0 and ""
DecodeBodyLosesFalsy(body) ==
  IF body = <<>> THEN [ok |-> TRUE, value |-> JsUndefined]
  ELSE IF JsonParse(body).value \in {JsNull, JsBool(FALSE), JsNumber(0), JsString(<<>>)}
  THEN [ok |-> JsonParse(body).ok, value |-> JsUndefined]
  ELSE JsonParse(body)

\* input = body ? JSON.parse(body) : undefined
DecodeBody(body) ==
  IF body = <<>> THEN [ok |-> TRUE, value |-> JsUndefined] ELSE JsonParse(body)

\* handleServerFn, for POST /_server-fn/<name> with a JSON content type:
\* const body = await request.text(); the decoded input goes to executeServerFn
ReceiveRemote ==
  /\ rtStage = "sent"
  /\ rtDecoded' = DecodeBody(rtBody).value
  /\ rtStage' = IF DecodeBody(rtBody).ok THEN "executing" ELSE "thrown"
  /\ UNCHANGED <<rtWindow, rtInput, rtBody, rtArg>>

\* executeServerFn without a validator and without middleware:
\* validatedInput = input; config.handler({input: validatedInput, context})
ExecuteUnvalidated ==
  /\ rtStage = "executing"
  /\ rtArg' = rtDecoded
  /\ rtStage' = "handled"
  /\ UNCHANGED <<rtWindow, rtInput, rtBody, rtDecoded>>

RoundTripNext ==
  /\ \/ CallInProcess
     \/ CallRemote
     \/ ReceiveRemote
     \/ ExecuteUnvalidated
  /\ UNCHANGED <<fnVars, isDev, ssrVars, dfVars, nmVars, bdVars, rnVars, chVars, apVars, tfVars>>

RoundTripSpec == RoundTripInit /\ [][RoundTripNext]_vars

\* --------------------------------------------- server.tsx: page requests
\* What the environment decides for a request: the query string, whether
\* router.load() or renderToReadableStream fails, what the loaders return.
Searches == {"", "?tab=1"}
Failures == {"none", "router.load", "renderToReadableStream"}
LoaderDataChoices == {{}, {[key |-> "posts", value |-> "three posts"]}}

\* prefetchedData.serverTimestamp = ...; prefetchedData.routePath = pathname
PrefetchedData ==
  {[key |-> "serverTimestamp", value |-> "now"], [key |-> "routePath", value |-> "pathname"]}

\* createClientOnlyShell(url): the only script state is __INITIAL_URL__
CreateClientOnlyShell(url) == Page(200, "client-only-shell", url, {}, "")
\* createDataOnlyShell(url, prefetchedData)
CreateDataOnlyShell(url, prefetchedData) == Page(200, "data-only-shell", url, prefetchedData, "")
\* new Response(stream, ...): the markup rendered for the url
StreamResponse(url) == Page(200, "stream", url, {}, "")
\* the page of the catch block: isDev ? String(error) : "Internal Server Error"
ErrorPage(dev, failure) ==
  Page(500, "error-page", NoUrl, {},
       IF dev THEN "Error: " \o failure \o " failed" ELSE "Internal Server Error")

SsrInit ==
  /\ ServerFnInit
  /\ isDev \in BOOLEAN
  /\ RoundTripIdle
  /\ SsrIdle
  /\ DeferredIdle
  /\ NamedIdle
  /\ BuilderIdle
  /\ RunsIdle
  /\ ChainIdle
  /\ ApiIdle
  /\ TransformIdle

\* setRouteSSRConfig(path, config).  Page requests keep nothing from one to the
\* next and read the configuration only before their first await, so one
\* request is followed, made after the configuration calls.
SetRouteSSRConfig(path, config) ==
  /\ ssrStage = "idle"
  /\ MapHas(routeSSRConfig, path) \/ Len(routeSSRConfig) < MaxRoutes
  /\ routeSSRConfig' = MapSet(routeSSRConfig, path, config)
  /\ UNCHANGED <<ssrStage, ssrUrl, ssrFails, ssrLoaderData, ssrCalled, ssrLoaded,
                 ssrResponse, ssrThrown>>

\* fetch(request) for a page, up to its first await.  A client-only route is
\* answered at once; a data-only route creates the router and awaits
\* router.load(); any other goes into renderApp, which does the same.
FetchPage(path, search, fails, data) ==
  /\ ssrStage = "idle"
  /\ ssrUrl' = [path |-> path, search |-> search]
  /\ ssrFails' = fails
  /\ ssrLoaderData' = data
  /\ ssrLoaded' = {}
  /\ ssrThrown' = FALSE
  /\ IF ~ShouldSSR(routeSSRConfig, path)
     THEN /\ ssrResponse' = CreateClientOnlyShell([path |-> path, search |-> search])
          /\ ssrCalled' = {}
          /\ ssrStage' = "done"
     ELSE /\ ssrResponse' = NoPage
          /\ ssrCalled' = {"createAppRouter", "router.load"}
          /\ ssrStage' = IF IsDataOnlySSR(routeSSRConfig, path) THEN "data_load" ELSE "full_load"
  /\ UNCHANGED routeSSRConfig

\* the data-only branch after `await router.load()`; it has no try block
DataOnlyLoaded ==
  /\ ssrStage = "data_load"
  /\ ssrStage' = "done"
  /\ IF ssrFails = "router.load"
     THEN ssrThrown' = TRUE /\ UNCHANGED <<ssrLoaded, ssrResponse>>
     ELSE /\ ssrLoaded' = ssrLoaderData
          /\ ssrResponse' = CreateDataOnlyShell(ssrUrl, PrefetchedData)
          /\ ssrThrown' = FALSE
  /\ UNCHANGED <<routeSSRConfig, ssrUrl, ssrFails, ssrLoaderData, ssrCalled>>

\* Faulty variant: a rejection of router.load() is not caught
RenderAppLoadedUncaught ==
  /\ ssrStage = "full_load"
  /\ IF ssrFails = "router.load"
     THEN /\ ssrThrown' = TRUE
          /\ ssrStage' = "done"
          /\ UNCHANGED <<ssrLoaded, ssrCalled>>
     ELSE /\ ssrLoaded' = ssrLoaderData
          /\ ssrCalled' = ssrCalled \cup {"renderToReadableStream"}
          /\ ssrStage' = "full_render"
          /\ UNCHANGED ssrThrown
  /\ UNCHANGED <<routeSSRConfig, ssrUrl, ssrFails, ssrLoaderData, ssrResponse>>

\* renderApp after `await router.load()`: renderToReadableStream is called,
\* or the rejection reaches the catch block of fetch
RenderAppLoaded ==
  /\ ssrStage = "full_load"
  /\ IF ssrFails = "router.load"
     THEN /\ ssrResponse' = ErrorPage(isDev, ssrFails)
          /\ ssrStage' = "done"
          /\ UNCHANGED <<ssrLoaded, ssrCalled>>
     ELSE /\ ssrLoaded' = ssrLoaderData
          /\ ssrCalled' = ssrCalled \cup {"renderToReadableStream"}
          /\ ssrStage' = "full_render"
          /\ UNCHANGED ssrResponse
  /\ UNCHANGED <<routeSSRConfig, ssrUrl, ssrFails, ssrLoaderData, ssrThrown>>

\* renderApp after `await renderToReadableStream(...)`: the stream is the
\* response, or the rejection reaches the catch block of fetch
RenderAppRendered ==
  /\ ssrStage = "full_render"
  /\ ssrStage' = "done"
  /\ ssrResponse' = IF ssrFails = "renderToReadableStream" THEN ErrorPage(isDev, ssrFails)
                    ELSE StreamResponse(ssrUrl)
  /\ UNCHANGED <<routeSSRConfig, ssrUrl, ssrFails, ssrLoaderData, ssrCalled, ssrLoaded,
                 ssrThrown>>

SsrNext ==
  /\ \/ \E path \in RoutePatterns, mode \in SSRModes :
          SetRouteSSRConfig(path, RouteSSRConfig(mode))
     \/ \E path \in RequestPaths, search \in Searches, fails \in Failures,
           data \in LoaderDataChoices : FetchPage(path, search, fails, data)
     \/ DataOnlyLoaded
     \/ RenderAppLoaded
     \/ RenderAppRendered
  /\ UNCHANGED <<fnVars, isDev, rtVars, dfVars, nmVars, bdVars, rnVars, chVars, apVars, tfVars>>

SsrSpec == SsrInit /\ [][SsrNext]_vars

\* ------------------------------------------- ssr.ts: deferred values
\* defer(promise) and one awaitDeferred(deferred, timeoutMs).  Promise
\* callbacks run as microtasks: a reaction is queued when its promise settles,
\* or when it is registered on a promise that has settled already, and the
\* queue is emptied before the clock moves, a timer fires or the awaited
\* computation delivers.  A timer is taken to fire in the millisecond it is
\* due.
DeferredValues == {"posts", "user"}
DeferredReasons == {"boom"}
Timeouts == (0 - 1)..MaxWait
Promises ==
  {PendingPromise}
    \cup {SettledPromise("fulfilled", v, 0) : v \in DeferredValues}
    \cup {SettledPromise("rejected", e, 0) : e \in DeferredReasons}
IsSettled(promise) == promise.state # "pending"

DeferredInit ==
  /\ ServerFnInit
  /\ isDev = TRUE
  /\ RoundTripIdle
  /\ SsrIdle
  /\ dfPromise \in Promises
  /\ dfDeferred = NoDeferred
  /\ dfJobs = <<>>
  /\ dfCall = NoCall
  /\ dfOutcome = NoOutcome
  /\ dfClock = 0
  /\ NamedIdle
  /\ BuilderIdle
  /\ RunsIdle
  /\ ChainIdle
  /\ ApiIdle
  /\ TransformIdle

\* promise.then(cb): the reaction job is queued now if the promise has settled
Then(promise, jobs, job) == IF IsSettled(promise) THEN Append(jobs, job) ELSE jobs

\* defer(promise): status 'pending' whatever the state of the promise; the
\* callbacks that set the status are registered with then and catch.
Defer ==
  /\ dfDeferred = NoDeferred
  /\ dfDeferred' = NewDeferred
  /\ dfJobs' = Then(dfPromise, dfJobs, "then")
  /\ UNCHANGED <<dfPromise, dfCall, dfOutcome, dfClock>>

\* The computation behind the promise delivers: its reactions are queued in
\* the order they were registered.
Settle(state, value) ==
  /\ dfPromise.state = "pending"
  /\ dfJobs = <<>>
  /\ dfPromise' = SettledPromise(state, value, dfClock)
  /\ dfJobs' = (IF dfDeferred # NoDeferred THEN <<"then">> ELSE <<>>)
                \o (IF dfCall.stage = "racing" THEN <<"race">> ELSE <<>>)
  /\ UNCHANGED <<dfDeferred, dfCall, dfOutcome, dfClock>>

\* The first settlement of Promise.race decides what awaitDeferred returns.
SettleRace(kind, value) ==
  IF dfOutcome = NoOutcome
    THEN Outcome(kind, value, dfClock, IsSettled(dfPromise))
    ELSE dfOutcome

\* One promise reaction job.
\*   then     the callback given to then: on fulfilment it sets status and
\*            value; a rejection passes to the promise then returned, whose
\*            catch callback runs one job later
\*   catch    sets status 'rejected' and error
\*   race     deferred.promise, as seen by Promise.race
\*   timeout  the timer's promise, resolved with null, as seen by Promise.race
RunJob(job) ==
  /\ dfDeferred' =
       CASE job = "then" /\ dfPromise.state = "fulfilled" ->
              [status |-> "resolved", value |-> dfPromise.value, error |-> ""]
         [] job = "catch" ->
              [status |-> "rejected", value |-> "", error |-> dfPromise.value]
         [] OTHER -> dfDeferred
  /\ dfOutcome' =
       CASE job = "race" /\ dfPromise.state = "fulfilled" ->
              SettleRace("value", dfPromise.value)
         [] job = "race" /\ dfPromise.state = "rejected" ->
              SettleRace("thrown", dfPromise.value)
         [] job = "timeout" -> SettleRace("null", "")
         [] OTHER -> dfOutcome

RunMicrotask ==
  /\ dfJobs # <<>>
  /\ RunJob(Head(dfJobs))
  /\ dfJobs' = Tail(dfJobs)
              \o (IF Head(dfJobs) = "then" /\ dfPromise.state = "rejected"
                    THEN <<"catch">> ELSE <<>>)
  /\ UNCHANGED <<dfPromise, dfCall, dfClock>>

\* awaitDeferred(deferred, timeoutMs), up to its return: the caller's code,
\* run in the same job as defer or in any later one.
AwaitDeferredBody(timeoutMs) ==
  CASE dfDeferred.status = "resolved" ->
         /\ dfCall' = [stage |-> "returned", timeoutMs |-> timeoutMs, at |-> dfClock,
                       timer |-> "none"]
         /\ dfOutcome' = Outcome("value", dfDeferred.value, dfClock, IsSettled(dfPromise))
         /\ dfJobs' = dfJobs
    [] dfDeferred.status = "rejected" ->
         /\ dfCall' = [stage |-> "returned", timeoutMs |-> timeoutMs, at |-> dfClock,
                       timer |-> "none"]
         /\ dfOutcome' = Outcome("thrown", dfDeferred.error, dfClock, IsSettled(dfPromise))
         /\ dfJobs' = dfJobs
    [] dfDeferred.status = "pending" /\ timeoutMs <= 0 ->
         /\ dfCall' = [stage |-> "returned", timeoutMs |-> timeoutMs, at |-> dfClock,
                       timer |-> "none"]
         /\ dfOutcome' = Outcome("null", "", dfClock, IsSettled(dfPromise))
         /\ dfJobs' = dfJobs
    [] OTHER ->
         /\ dfCall' = [stage |-> "racing", timeoutMs |-> timeoutMs, at |-> dfClock,
                       timer |-> "armed"]
         /\ dfOutcome' = dfOutcome
         /\ dfJobs' = Then(dfPromise, dfJobs, "race")

AwaitDeferred(timeoutMs) ==
  /\ dfDeferred # NoDeferred
  /\ dfCall = NoCall
  /\ AwaitDeferredBody(timeoutMs)
  /\ UNCHANGED <<dfPromise, dfDeferred, dfClock>>

TimerDue == dfCall.timer = "armed" /\ dfClock = dfCall.at + dfCall.timeoutMs

\* setTimeout(() => resolve(null), timeoutMs)
TimerFires ==
  /\ dfJobs = <<>>
  /\ TimerDue
  /\ dfCall' = [dfCall EXCEPT !.timer = "fired"]
  /\ dfJobs' = <<"timeout">>
  /\ UNCHANGED <<dfPromise, dfDeferred, dfOutcome, dfClock>>

\* a millisecond passes
Tick ==
  /\ dfJobs = <<>>
  /\ ~TimerDue
  /\ dfClock < MaxTime
  /\ dfClock' = dfClock + 1
  /\ UNCHANGED <<dfPromise, dfDeferred, dfJobs, dfCall, dfOutcome>>

DeferredNext ==
  /\ \/ Defer
     \/ \E v \in DeferredValues : Settle("fulfilled", v)
     \/ \E e \in DeferredReasons : Settle("rejected", e)
     \/ RunMicrotask
     \/ \E timeoutMs \in Timeouts : AwaitDeferred(timeoutMs)
     \/ TimerFires
     \/ Tick
  /\ UNCHANGED <<fnVars, isDev, rtVars, ssrVars, nmVars, bdVars, rnVars, chVars, apVars, tfVars>>

DeferredSpec == DeferredInit /\ [][DeferredNext]_vars

\* ------------------------------------- server-fn.ts: createNamedServerFn
\* Procedures created by name after start-up, and executeServerFn by those
\* names.  The user functions take no await and read no context.
NamedNames == {"getUser", "saveUser", FnName(Len(Definitions))}
UserFunctions == {"loadUser", "storeUser"}

\* async ({ input }) => handler(input): what createNamedServerFn registers
InputOnly(handler) == "({ input }) => " \o handler \o "(input)"
\* the user function a registered handler calls
Calls(fn) ==
  IF \E h \in UserFunctions : fn = InputOnly(h)
    THEN CHOOSE h \in UserFunctions : fn = InputOnly(h)
    ELSE fn

\* the callable returned by builder.handler(fn)
ServerFn(config) ==
  [_name |-> config.name, _method |-> config.method, url |-> "/_server-fn/" \o config.name]

NamedInit ==
  /\ ServerFnInit
  /\ isDev = TRUE
  /\ RoundTripIdle
  /\ SsrIdle
  /\ DeferredIdle
  /\ NamedIdle
  /\ BuilderIdle
  /\ RunsIdle
  /\ ChainIdle
  /\ ApiIdle
  /\ TransformIdle

\* createServerFn() as createNamedServerFn calls it: `name` is not passed on
NamedConfig(counter, name, handler) == CreateServerFn(counter, "POST")

\* createNamedServerFn(name, handler)
CreateNamedServerFn(name, handler) ==
  /\ Len(nmCreated) < MaxNamed
  /\ LET config == NamedConfig(serverFnCounter, name, handler) IN
       /\ serverFnCounter' = serverFnCounter + 1
       /\ serverFnRegistry' = BuilderHandler(serverFnRegistry, config, InputOnly(handler))
       /\ nmCreated' = Append(nmCreated,
                              [name |-> name, handler |-> handler, serverFn |-> ServerFn(config)])
  /\ UNCHANGED nmExecuted

\* executeServerFn(name, input, request)
ExecuteNamed(name) ==
  /\ nmCreated # <<>>
  /\ nmExecuted' =
       IF name \notin DOMAIN serverFnRegistry
         THEN [name |-> name, ran |-> "",
               thrown |-> NotFoundError("Unknown server function: " \o name)]
         ELSE [name |-> name, ran |-> Calls(serverFnRegistry[name].handler),
               thrown |-> NoError]
  /\ UNCHANGED <<serverFnRegistry, serverFnCounter, nmCreated>>

NamedNext ==
  /\ \/ \E name \in NamedNames, handler \in UserFunctions : CreateNamedServerFn(name, handler)
     \/ \E name \in NamedNames : ExecuteNamed(name)
  /\ UNCHANGED <<contextStorage, contexts, currentContextKey, pc, req, hKey, eKey, validated,
                 mwIdx, mwData, ip, trace, wrote, own, thrown, result, response>>
  /\ UNCHANGED <<isDev, rtVars, ssrVars, dfVars, bdVars, rnVars, chVars, apVars, tfVars>>

NamedSpec == NamedInit /\ [][NamedNext]_vars

\* --------------------------------------- server-fn.ts: the builder in use
\* createServerFn() and the builder operations, called in any order on any
\* stage made so far, and the callables invoked in the server process.  A
\* stage is the closure over one config; the validator() calls that led to it
\* are kept beside it.
BuilderSchemas == {ZodSchema("EchoInputSchema"), ZodSchema("LoginSchema")}
BuilderMiddlewares == {"logMiddleware"}
BuilderHandlers == {"getServerTime", "echo"}
BuilderInputs == {InMsgAbc, InAdmin}
Stage(config, validators) == [config |-> config, validators |-> validators]

BuilderInit ==
  /\ ServerFnInit
  /\ isDev = TRUE
  /\ RoundTripIdle
  /\ SsrIdle
  /\ DeferredIdle
  /\ NamedIdle
  /\ BuilderIdle
  /\ RunsIdle
  /\ ChainIdle
  /\ ApiIdle
  /\ TransformIdle

\* createServerFn(options)
CallCreateServerFn(method) ==
  /\ Cardinality(bdStages) < MaxStages
  /\ bdStages' = bdStages \cup {Stage(CreateServerFn(serverFnCounter, method), <<>>)}
  /\ serverFnCounter' = serverFnCounter + 1
  /\ UNCHANGED <<serverFnRegistry, bdServerFns, bdBuilt, bdInvoked>>

\* stage.validator(schema)
CallValidator(stage, schema) ==
  /\ Cardinality(bdStages) < MaxStages
  /\ bdStages' = bdStages \cup
       {Stage(BuilderValidator(stage.config, schema), Append(stage.validators, schema))}
  /\ UNCHANGED <<serverFnRegistry, serverFnCounter, bdServerFns, bdBuilt, bdInvoked>>

\* stage.middleware(mw)
CallMiddleware(stage, mw) ==
  /\ Cardinality(bdStages) < MaxStages
  /\ bdStages' = bdStages \cup {Stage(BuilderMiddleware(stage.config, mw), stage.validators)}
  /\ UNCHANGED <<serverFnRegistry, serverFnCounter, bdServerFns, bdBuilt, bdInvoked>>

\* stage.handler(fn): registers finalConfig under config.name, returns serverFn
CallHandler(stage, fn) ==
  /\ Len(bdServerFns) < MaxServerFns
  /\ serverFnRegistry' = BuilderHandler(serverFnRegistry, stage.config, fn)
  /\ bdServerFns' = Append(bdServerFns,
                           [_name |-> stage.config.name,
                            built |-> [stage.config EXCEPT !.handler = fn]])
  /\ bdBuilt' = [n \in DOMAIN bdBuilt \cup {stage.config.name} |->
                  IF n = stage.config.name THEN stage.validators ELSE bdBuilt[n]]
  /\ UNCHANGED <<serverFnCounter, bdStages, bdInvoked>>

\* serverFn(input) in the server process: executeServerFn(config.name, input,
\* mockRequest), followed to the end of its validation step
InvokeServerFn(k, input) ==
  /\ LET name == bdServerFns[k]._name
         config == serverFnRegistry[name]
         r == IF config.validator.kind = "none"
                THEN [ok |-> TRUE, value |-> input, error |-> NoError]
                ELSE RunValidator(config.validator, input)
     IN bdInvoked' = [name |-> name, validators |-> bdBuilt[name], input |-> input,
                      ok |-> r.ok, value |-> r.value, error |-> r.error]
  /\ UNCHANGED <<serverFnRegistry, serverFnCounter, bdStages, bdServerFns, bdBuilt>>

BuilderNext ==
  /\ \/ \E method \in {"GET", "POST"} : CallCreateServerFn(method)
     \/ \E stage \in bdStages, schema \in BuilderSchemas : CallValidator(stage, schema)
     \/ \E stage \in bdStages, mw \in BuilderMiddlewares : CallMiddleware(stage, mw)
     \/ \E stage \in bdStages, fn \in BuilderHandlers : CallHandler(stage, fn)
     \/ \E k \in 1..Len(bdServerFns), input \in BuilderInputs : InvokeServerFn(k, input)
  /\ UNCHANGED <<contextStorage, contexts, currentContextKey, pc, req, hKey, eKey, validated,
                 mwIdx, mwData, ip, trace, wrote, own, thrown, result, response>>
  /\ UNCHANGED <<nmCreated, nmExecuted>>
  /\ UNCHANGED <<isDev, rtVars, ssrVars, dfVars, rnVars, chVars, apVars, tfVars>>

BuilderSpec == BuilderInit /\ [][BuilderNext]_vars

\* ------------------------------------- server-fn.ts: generated names
\* Two executions of the program (two processes, or the server and a client
\* bundle), each evaluating definitions one after the other from a counter of
\* 0.  A definition is createServerFn({ method }) or createNamedServerFn.
DefinitionKinds == {"GET", "POST", "named"}

RunsInit ==
  /\ ServerFnInit
  /\ isDev = TRUE
  /\ RoundTripIdle
  /\ SsrIdle
  /\ DeferredIdle
  /\ NamedIdle
  /\ BuilderIdle
  /\ RunsIdle
  /\ ChainIdle
  /\ ApiIdle
  /\ TransformIdle

\* the config the definition's builder starts from
DefinedConfig(counter, kind) ==
  IF kind = "named" THEN NamedConfig(counter, "getUser", "loadUser")
  ELSE CreateServerFn(counter, kind)

\* execution e evaluates its next definition: const name = `fn_${serverFnCounter++}`
Define(e, kind) ==
  /\ Len(runs[e].defined) < MaxDefs
  /\ runs' = [runs EXCEPT ![e] =
       [serverFnCounter |-> @.serverFnCounter + 1,
        defined |-> Append(@.defined,
                           [kind |-> kind,
                            name |-> DefinedConfig(@.serverFnCounter, kind).name])]]

RunsNext ==
  /\ \E e \in Executions, kind \in DefinitionKinds : Define(e, kind)
  /\ UNCHANGED <<fnVars, isDev, rtVars, ssrVars, dfVars, nmVars, bdVars, chVars, apVars, tfVars>>

RunsSpec == RunsInit /\ [][RunsNext]_vars

\* ------------------------------------- server-fn.ts: middleware data
\* The for loop of executeServerFn over config.middlewares, followed for the
\* data alone.  A middleware is given by what it passes to next (nothing when
\* it calls next(), "nocall" when it does not call it) and by what it returns:
\* the result of its next() call, another value, or nothing.
ChainData == {"user", "role"}
Passes == {"nocall", UndefinedData} \cup ChainData
Returns == {"result", UndefinedData, "other"}
MiddlewareFns ==
  {[passes |-> p, returns |-> r] : p \in Passes, r \in Returns} \
    {[passes |-> "nocall", returns |-> "result"]}
Chains == UNION {[1..n -> MiddlewareFns] : n \in 1..MaxChain}
\* requests, by their authorization header, and validated inputs
ChainRequests == {"anonymous", "bearer"}
ChainInputs == {"abc", "admin"}
\* const context = { request, headers, responseHeaders, responseStatus: 200 }
ChainContext(request) == [request |-> request, responseStatus |-> 200]

ChainInit ==
  /\ ServerFnInit
  /\ isDev = TRUE
  /\ RoundTripIdle
  /\ SsrIdle
  /\ DeferredIdle
  /\ NamedIdle
  /\ BuilderIdle
  /\ RunsIdle
  /\ chMiddlewares \in Chains
  /\ chIdx = 0
  /\ chStage = "loop"
  /\ middlewareData = EmptyData
  /\ chReceived = <<>>
  /\ chNextResult = UndefinedData
  /\ chRequest \in ChainRequests
  /\ chValidatedInput \in ChainInputs
  /\ chHandlerArgs = NoHandlerArgs
  /\ ApiIdle
  /\ TransformIdle

\* data ?? middlewareData
Coalesce(data, otherwise) == IF data = UndefinedData THEN otherwise ELSE data

\* mw.fn({ request, data: middlewareData, next }): the middleware is entered
EnterMiddleware ==
  /\ chStage = "loop"
  /\ chIdx < Len(chMiddlewares)
  /\ chIdx' = chIdx + 1
  /\ chReceived' = Append(chReceived, middlewareData)
  /\ chNextResult' = UndefinedData
  /\ chStage' = "entered"
  /\ UNCHANGED <<chMiddlewares, middlewareData, chRequest, chValidatedInput, chHandlerArgs>>

\* next(data): middlewareData = data ?? middlewareData; return middlewareData
NextCalled ==
  /\ chStage = "entered"
  /\ chMiddlewares[chIdx].passes # "nocall"
  /\ middlewareData' = Coalesce(chMiddlewares[chIdx].passes, middlewareData)
  /\ chNextResult' = middlewareData'
  /\ chStage' = "called"
  /\ UNCHANGED <<chMiddlewares, chIdx, chReceived, chRequest, chValidatedInput, chHandlerArgs>>

\* what the middleware's promise resolves to
ReturnValue(fn, nextResult) ==
  CASE fn.returns = "result" -> nextResult
    [] fn.returns = UndefinedData -> UndefinedData
    [] OTHER -> "other"

\* middlewareData = await mw.fn(...): the value the middleware returns is assigned
MiddlewareReturns ==
  /\ \/ chStage = "called"
     \/ chStage = "entered" /\ chMiddlewares[chIdx].passes = "nocall"
  /\ middlewareData' = ReturnValue(chMiddlewares[chIdx], chNextResult)
  /\ chStage' = "loop"
  /\ UNCHANGED <<chMiddlewares, chIdx, chReceived, chNextResult, chRequest, chValidatedInput,
                 chHandlerArgs>>

\* A faulty variant: the data of the middlewares reaches the handler as its input.
HandlerArgsWithData(validatedInput, context, data) ==
  [input |-> IF data \in ChainData THEN data ELSE validatedInput, context |-> context]

\* the object literal config.handler is called with
HandlerArgs(validatedInput, context, data) ==
  [input |-> validatedInput, context |-> context]

\* return await config.handler({ input: validatedInput, context })
CallChainHandler ==
  /\ chStage = "loop"
  /\ chIdx = Len(chMiddlewares)
  /\ chHandlerArgs' = HandlerArgs(chValidatedInput, ChainContext(chRequest), middlewareData)
  /\ chStage' = "handler"
  /\ UNCHANGED <<chMiddlewares, chIdx, middlewareData, chReceived, chNextResult, chRequest,
                 chValidatedInput>>

ChainNext ==
  /\ \/ EnterMiddleware
     \/ NextCalled
     \/ MiddlewareReturns
     \/ CallChainHandler
  /\ UNCHANGED <<fnVars, isDev, rtVars, ssrVars, dfVars, nmVars, bdVars, rnVars, apVars, tfVars>>

ChainSpec == ChainInit /\ [][ChainNext]_vars

\* ----------------------------------------------------- api-routes.ts
\* Patterns and pathnames are strings, kept as sequences of characters.
\* Names are one letter long: /api/p/n stands for /api/posts/new.
ApiPrefix == <<"/", "a", "p", "i", "/">>
ApiPatterns ==
  { ApiPrefix \o <<"p">>,                     \* /api/p
    ApiPrefix \o <<"p", "/", "n">>,           \* /api/p/n
    ApiPrefix \o <<"p", "/", ":", "i">>,      \* /api/p/:i
    ApiPrefix \o <<":", "s", "/", "n">>,      \* /api/:s/n
    ApiPrefix \o <<"f", "/", "*">> }          \* /api/f/*
ApiPathnames ==
  { ApiPrefix \o <<"p">>, ApiPrefix \o <<"p", "/", "n">>, ApiPrefix \o <<"p", "/", "1">>,
    ApiPrefix \o <<"f", "/", "x", "/", "y">>, <<"/", "p", "/", "n">> }
ApiMethods == {"GET", "POST", "OPTIONS"}
NameStart == {"a", "f", "i", "n", "p", "s", "x", "y"}
NameChars == NameStart \cup {"1"}

\* string.startsWith(prefix)
StartsWith(string, prefix) ==
  Len(prefix) <= Len(string) /\ SubSeq(string, 1, Len(prefix)) = prefix

RECURSIVE StripTrailingSlashes(_)
\* pattern.replace(/\/+$/, '')
StripTrailingSlashes(string) ==
  IF string # <<>> /\ string[Len(string)] = "/"
    THEN StripTrailingSlashes(SubSeq(string, 1, Len(string) - 1))
    ELSE string

RECURSIVE NameLength(_)
\* the length of the longest run of [a-zA-Z0-9_] the string starts with
NameLength(string) ==
  IF string # <<>> /\ string[1] \in NameChars THEN 1 + NameLength(Tail(string)) ELSE 0

RECURSIVE PatternToRegex(_)
\* patternToRegex: * becomes (?:.*), :name becomes ([^/]+), every other
\* character stands for itself.  The regex is kept as its sequence of items.
PatternToRegex(pattern) ==
  IF pattern = <<>> THEN <<>>
  ELSE IF pattern[1] = "*"
    THEN <<[item |-> "any", char |-> "", name |-> <<>>]>> \o PatternToRegex(Tail(pattern))
  ELSE IF pattern[1] = ":" /\ Len(pattern) > 1 /\ pattern[2] \in NameStart
    THEN LET n == NameLength(Tail(pattern)) IN
         <<[item |-> "param", char |-> "", name |-> SubSeq(pattern, 2, n + 1)]>>
           \o PatternToRegex(SubSeq(pattern, n + 2, Len(pattern)))
  ELSE <<[item |-> "char", char |-> pattern[1], name |-> <<>>]>>
         \o PatternToRegex(Tail(pattern))

\* paramNames, in the order of the pattern
ParamNames(regex) ==
  LET ps == SelectSeq(regex, LAMBDA it : it.item = "param") IN
  [k \in 1..Len(ps) |-> ps[k].name]

RECURSIVE RegexMatches(_, _)
\* pathname.match(new RegExp(`^${regexStr}$`)) is not null
RegexMatches(regex, string) ==
  IF regex = <<>> THEN string = <<>>
  ELSE CASE regex[1].item = "char" ->
              /\ string # <<>>
              /\ string[1] = regex[1].char
              /\ RegexMatches(Tail(regex), Tail(string))
         [] regex[1].item = "param" ->
              \E n \in 1..Len(string) :
                /\ \A k \in 1..n : string[k] # "/"
                /\ RegexMatches(Tail(regex), SubSeq(string, n + 1, Len(string)))
         [] regex[1].item = "any" ->
              \E n \in 0..Len(string) :
                RegexMatches(Tail(regex), SubSeq(string, n + 1, Len(string)))

ApiRoute(pattern) ==
  [pattern |-> pattern, regex |-> PatternToRegex(pattern),
   paramNames |-> ParamNames(PatternToRegex(pattern))]

\* the index the new route without params is spliced in at
InsertIdx(routes, pattern) ==
  LET hits == {i \in 1..Len(routes) :
                 /\ Len(routes[i].paramNames) > 0
                 /\ StartsWith(routes[i].pattern, StripTrailingSlashes(pattern))} IN
  IF hits = {} THEN Len(routes) + 1
  ELSE CHOOSE i \in hits : \A j \in hits : i <= j

\* apiRoutes.splice(idx, 0, route)
Splice(routes, idx, route) ==
  SubSeq(routes, 1, idx - 1) \o <<route>> \o SubSeq(routes, idx, Len(routes))

\* defineApiRoute(pattern, handlers): the registry afterwards
DefineApiRouteIn(routes, pattern) ==
  IF Len(ApiRoute(pattern).paramNames) > 0
    THEN Append(routes, ApiRoute(pattern))
    ELSE Splice(routes, InsertIdx(routes, pattern), ApiRoute(pattern))

ApiInit ==
  /\ ServerFnInit
  /\ isDev = TRUE
  /\ RoundTripIdle
  /\ SsrIdle
  /\ DeferredIdle
  /\ NamedIdle
  /\ BuilderIdle
  /\ RunsIdle
  /\ ChainIdle
  /\ ApiIdle
  /\ TransformIdle

\* defineApiRoute(pattern, { GET: handler }): routes are defined at start-up,
\* before the first request
DefineApiRoute(pattern) ==
  /\ apiRequest = NoApiRequest
  /\ Len(apiRoutes) < MaxApiRoutes
  /\ \A k \in 1..Len(apiRoutes) : apiRoutes[k].pattern # pattern
  /\ apiRoutes' = DefineApiRouteIn(apiRoutes, pattern)
  /\ UNCHANGED <<apiRequest, apiResponse>>

\* the first route whose regex matches, 0 when none does
FirstMatch(routes, pathname) ==
  LET hits == {i \in 1..Len(routes) : RegexMatches(routes[i].regex, pathname)} IN
  IF hits = {} THEN 0 ELSE CHOOSE i \in hits : \A j \in hits : i <= j

\* handleApiRoute(request), with handlers that answer 200
HandleApiRoute(pathname, method) ==
  /\ apiRequest = NoApiRequest
  /\ apiRequest' = [pathname |-> pathname, method |-> method]
  /\ apiResponse' =
       IF ~StartsWith(pathname, ApiPrefix) \/ FirstMatch(apiRoutes, pathname) = 0
         THEN NoApiResponse
       ELSE IF method = "OPTIONS"
         THEN ApiResponse(204, <<>>)
       ELSE IF method # "GET"
         THEN ApiResponse(405, <<>>)
       ELSE ApiResponse(200, apiRoutes[FirstMatch(apiRoutes, pathname)].pattern)
  /\ UNCHANGED apiRoutes

ApiNext ==
  /\ \/ \E pattern \in ApiPatterns : DefineApiRoute(pattern)
     \/ \E pathname \in ApiPathnames, method \in ApiMethods : HandleApiRoute(pathname, method)
  /\ UNCHANGED <<fnVars, isDev, rtVars, ssrVars, dfVars, nmVars, bdVars, rnVars, chVars, tfVars>>

ApiSpec == ApiInit /\ [][ApiNext]_vars

\* ================================================================ ssr.ts: createDeferredTransform
\* A document is a sequence of characters.  "X" stands for a run of
\* LongRun filler characters none of which occurs in the tag, so that
\* buffer.length can pass the limit of the code without ten thousand
\* elements in a sequence.
MaxChunks == 3
MaxDeferred == 1
LongRun == 10000
BufferLimit == 10000

BodyEndTag == <<"<", "/", "b", "o", "d", "y", ">">>
DocumentPrefixes == {<<"a">>, <<"X">>}
DocumentSuffixes == {<<>>, <<"a">>, BodyEndTag}
Documents == {pre \o BodyEndTag \o post : pre \in DocumentPrefixes, post \in DocumentSuffixes}

\* string.length
RECURSIVE Length(_)
Length(s) ==
  IF s = <<>> THEN 0
  ELSE (IF Head(s) = "X" THEN LongRun ELSE 1) + Length(Tail(s))

\* string.indexOf(t), 1-based, 0 for the -1 of the code
IndexOf(s, t) ==
  LET hits == {k \in 1..(Len(s) - Len(t) + 1) : SubSeq(s, k, k + Len(t) - 1) = t}
  IN IF hits = {} THEN 0 ELSE CHOOSE k \in hits : \A h \in hits : k <= h

\* the chunks of doc when it is cut after the positions of cuts
RECURSIVE SplitAt(_, _)
SplitAt(doc, cuts) ==
  IF cuts = {} THEN <<doc>>
  ELSE LET c == CHOOSE x \in cuts : \A y \in cuts : x <= y
       IN <<SubSeq(doc, 1, c)>> \o SplitAt(SubSeq(doc, c + 1, Len(doc)), {x - c : x \in cuts \ {c}})

Chunkings(doc) ==
  {SplitAt(doc, cuts) : cuts \in {c \in SUBSET (1..(Len(doc) - 1)) : Cardinality(c) < MaxChunks}}

DeferredKeys == <<"k1", "k2", "k3">>
DeferredData == {JsString(<<"d">>), JsString(<<"<">>), JsUndefined}
\* a promise as the race of the transform sees it
RacedPromises ==
  {[state |-> "pending", data |-> JsUndefined], [state |-> "rejected", data |-> JsUndefined]}
    \cup {[state |-> "resolved", data |-> d] : d \in DeferredData}
DeferredMaps ==
  UNION {{[k \in 1..n |-> [key |-> DeferredKeys[k], promise |-> ps[k]]] : ps \in [1..n -> RacedPromises]}
           : n \in 0..MaxDeferred}

\* .replace(/</g, '\\u003c')
RECURSIVE EscapeLt(_)
EscapeLt(s) ==
  IF s = <<>> THEN <<>>
  ELSE <<IF Head(s) = "<" THEN "\\u003c" ELSE Head(s)>> \o EscapeLt(Tail(s))

ScriptThrows == <<"TypeError">>
\* createDeferredScript: JSON.stringify(undefined) is undefined, and
\* .replace on it throws
CreateDeferredScript(key, data) ==
  IF data.t = "undefined" THEN ScriptThrows
  ELSE <<"<script>", key, "=">> \o EscapeLt(JsonStringify(data)) \o <<"</script>">>

\* Promise.race([promise.then(...), timer 0]): a settled promise is ahead
\* of the timer; a rejection is thrown into the catch
RaceResult(promise) ==
  CASE promise.state = "resolved" -> [resolved |-> TRUE, thrown |-> FALSE, data |-> promise.data]
    [] promise.state = "rejected" -> [resolved |-> FALSE, thrown |-> TRUE, data |-> JsUndefined]
    [] OTHER -> [resolved |-> FALSE, thrown |-> FALSE, data |-> JsUndefined]

\* the body of the for loop: what one entry adds to scripts
ScriptOf(entry) ==
  LET raced == RaceResult(entry.promise)
  IN IF raced.thrown \/ ~raced.resolved THEN <<>>
     ELSE IF CreateDeferredScript(entry.key, raced.data) = ScriptThrows THEN <<>>
     ELSE CreateDeferredScript(entry.key, raced.data)

\* scripts.join('')
RECURSIVE JoinScripts(_)
JoinScripts(entries) ==
  IF entries = <<>> THEN <<>>
  ELSE ScriptOf(Head(entries)) \o JoinScripts(Tail(entries))

TransformInit ==
  /\ ServerFnInit
  /\ isDev = TRUE
  /\ RoundTripIdle
  /\ SsrIdle
  /\ DeferredIdle
  /\ NamedIdle
  /\ BuilderIdle
  /\ RunsIdle
  /\ ChainIdle
  /\ ApiIdle
  /\ tfDocument \in Documents
  /\ tfChunks \in Chunkings(tfDocument)
  /\ deferredPromises \in DeferredMaps
  /\ buffer = <<>>
  /\ bodyEnded = FALSE
  /\ tfOutput = <<>>
  /\ tfClosed = FALSE

\* transform(chunk, controller)
Transform ==
  /\ ~tfClosed
  /\ tfChunks # <<>>
  /\ LET buf == buffer \o Head(tfChunks)
         bodyEndIndex == IndexOf(buf, BodyEndTag)
     IN IF bodyEndIndex # 0 /\ ~bodyEnded
        THEN /\ bodyEnded' = TRUE
             /\ tfOutput' = tfOutput \o SubSeq(buf, 1, bodyEndIndex - 1)
                              \o JoinScripts(deferredPromises)
                              \o SubSeq(buf, bodyEndIndex, Len(buf))
             /\ buffer' = <<>>
        ELSE IF bodyEnded \/ Length(buf) > BufferLimit
        THEN /\ tfOutput' = tfOutput \o buf
             /\ buffer' = <<>>
             /\ UNCHANGED bodyEnded
        ELSE /\ buffer' = buf
             /\ UNCHANGED <<tfOutput, bodyEnded>>
  /\ tfChunks' = Tail(tfChunks)
  /\ UNCHANGED <<tfDocument, deferredPromises, tfClosed>>

\* flush(controller)
Flush ==
  /\ ~tfClosed
  /\ tfChunks = <<>>
  /\ tfOutput' = IF buffer # <<>> THEN tfOutput \o buffer ELSE tfOutput
  /\ tfClosed' = TRUE
  /\ UNCHANGED <<tfDocument, tfChunks, deferredPromises, buffer, bodyEnded>>

TransformNext ==
  /\ \/ Transform
     \/ Flush
  /\ UNCHANGED <<fnVars, isDev, rtVars, ssrVars, dfVars, nmVars, bdVars, rnVars, chVars, apVars>>

TransformSpec == TransformInit /\ [][TransformNext]_vars

\* ================================================================ claims
Range(s) == {s[k] : k \in 1..Len(s)}
Finished(i) == pc[i] = "done"
Http(i) == req[i].transport = "http"
Registered(i) == req[i].name \in DOMAIN serverFnRegistry
\* handleServerFn got past the decoding of the request
WasDecoded(i) == thrown[i].type # "SyntaxError"
HandlerEntered(i) == "handler" \in Range(trace[i])
MiddlewaresRun(i) == SelectSeq(trace[i], LAMBDA e : e \notin {"validator", "handler"})

\* The user code the invocation was in last, and the operation it stopped at.
LastProgram(i) ==
  IF ~Registered(i) THEN <<>>
  ELSE IF HandlerEntered(i)
  THEN HandlerProgram(serverFnRegistry[req[i].name].handler, validated[i])
  ELSE IF mwIdx[i] > 0
  THEN MiddlewareProgram(serverFnRegistry[req[i].name].middlewares[mwIdx[i]])
  ELSE <<>>
LastOp(i) ==
  IF ip[i] \in 1..Len(LastProgram(i)) THEN LastProgram(i)[ip[i]] ELSE Op("", "", "", 0)
\* the invocation is over and its handler ended with this operation
HandlerEndedWith(i, op) == Finished(i) /\ HandlerEntered(i) /\ LastOp(i).op = op

\* the middlewares the definition registered under this name passed to
\* middleware(), in the order of the calls
PassedMiddlewares(name) ==
  LET d == Definitions[CHOOSE k \in 1..Len(Definitions) : FnName(k - 1) = name]
      ms == SelectSeq(d.calls, LAMBDA c : c.call = "middleware") IN
  [k \in 1..Len(ms) |-> ms[k].arg.name]

\* every header the invocation's own code set is on its response, as set
CarriesOwnHeaders(i) ==
  \A n \in DOMAIN own[i].responseHeaders :
    /\ HeadersHas(response[i].headers, n)
    /\ response[i].headers[n] = own[i].responseHeaders[n]

\* C1 (as claimed): what an invocation writes through setResponseHeader,
\* setCookie or setResponseStatus lands only in a context of that invocation,
\* and a response carries no value written by another invocation.
C1_ContextIsolation ==
  \A i \in Inv :
    /\ \A k \in wrote[i] : contexts[k].request = i
    /\ Finished(i) /\ Http(i) =>
         \A n \in DOMAIN response[i].headers :
           \A a \in Range(response[i].headers[n]) : a.by \in {0, i}

\* C2: every record in the context store belongs to an invocation that is
\* still inside the frame that registered it; so an invocation that has left
\* executeServerFn or handleServerFn, on whatever path, has left no record
\* behind, and the store is empty whenever no invocation is in flight.
C2_ContextsRemovedOnExit ==
  /\ \A k \in contextStorage :
       \E i \in Inv :
         \/ k = hKey[i] /\ pc[i] \in {"x_chain", "x_mw", "x_handler", "x_finally",
                                      "h_respond", "h_catch"}
         \/ k = eKey[i] /\ pc[i] \in {"x_chain", "x_mw", "x_handler", "x_finally"}
  /\ (\A i \in Inv : pc[i] \in {"idle", "done"}) => contextStorage = {}

\* all invocations are over, each had registered two records, one ended with a
\* validation failure and one with an unexpected error
C2_Witness ==
  /\ \A i \in Inv : Finished(i) /\ hKey[i] # 0 /\ eKey[i] # 0
  /\ \E i \in Inv : response[i].status = 400
  /\ \E i \in Inv : response[i].status = 500

\* C3 (as claimed): the response of an HTTP invocation whose handler
\* returned has the status the invocation set (200 if none) and every header
\* it wrote.
C3_ResponseCarriesContext ==
  \A i \in Inv :
    Http(i) /\ HandlerEndedWith(i, "return") =>
      /\ response[i].status = own[i].responseStatus
      /\ CarriesOwnHeaders(i)

\* C4 (as claimed): for a procedure with a validator, schema or plain
\* function, an HTTP invocation whose input the validator rejects is answered
\* 400 with the failing fields and its handler is not entered; one whose
\* input the validator accepts is never answered with a validation error.
C4_ValidationFailureIs400 ==
  \A i \in Inv :
    Finished(i) /\ Http(i) /\ "validator" \in Range(trace[i]) =>
      IF RunValidator(serverFnRegistry[req[i].name].validator, req[i].input).ok
      THEN response[i].body.error # "Validation failed"
      ELSE /\ response[i].status = 400
           /\ response[i].body.details # <<>>
           /\ ~HandlerEntered(i)

\* C5 (as claimed): every request handed to handleServerFn gets a response,
\* and no exception is left to the transport.
C5_AlwaysAResponse ==
  \A i \in Inv :
    Finished(i) /\ Http(i) => response[i].status # 0 /\ thrown[i].type = "none"

\* C6: the middlewares an invocation has entered are the first ones of the
\* procedure's middleware() calls, each once and in that order; the handler is
\* entered only after all of them, once; and when authMiddleware, the k-th of
\* the chain, throws, no later middleware and no handler is entered.
C6_MiddlewareOrder ==
  \A i \in Inv :
    Registered(i) /\ pc[i] # "idle" =>
      LET mws == PassedMiddlewares(req[i].name)
          ran == MiddlewaresRun(i) IN
      /\ Len(ran) <= Len(mws)
      /\ ran = SubSeq(mws, 1, Len(ran))
      /\ HandlerEntered(i) =>
           /\ ran = mws
           /\ trace[i][Len(trace[i])] = "handler"
           /\ Cardinality({k \in 1..Len(trace[i]) : trace[i][k] = "handler"}) = 1
      /\ \A k \in 1..Len(mws) :
           mws[k] = "authMiddleware" /\ ~req[i].auth => Len(ran) <= k /\ ~HandlerEntered(i)

\* one invocation ran log and timing and then its handler, another stopped at
\* authMiddleware, the second of three middlewares
C6_Witness ==
  /\ \E i \in Inv :
       /\ Finished(i) /\ HandlerEntered(i)
       /\ MiddlewaresRun(i) = <<"logMiddleware", "timingMiddleware">>
  /\ \E i \in Inv :
       /\ Finished(i) /\ Registered(i)
       /\ Len(PassedMiddlewares(req[i].name)) = 3
       /\ MiddlewaresRun(i) = <<"logMiddleware", "authMiddleware">>

\* C7: an HTTP invocation whose handler called redirect(url, s) is answered
\* with status s (302 when none was given), Location: url and no body, and
\* nothing the handler returned.
C7_RedirectResponse ==
  \A i \in Inv :
    Http(i) /\ HandlerEndedWith(i, "redirect") =>
      /\ response[i].status = (IF LastOp(i).n = 0 THEN 302 ELSE LastOp(i).n)
      /\ HeadersHas(response[i].headers, "location")
      /\ response[i].headers["location"] = <<Atom(LastOp(i).a, 0)>>
      /\ response[i].body = NullBody
      /\ result[i] = NoResult

\* one redirect with the default status and one with 303
C7_Witness ==
  /\ \E i \in Inv : Http(i) /\ HandlerEndedWith(i, "redirect") /\ response[i].status = 302
  /\ \E i \in Inv : Http(i) /\ HandlerEndedWith(i, "redirect") /\ response[i].status = 303

\* C8 (as claimed): the redirect response carries every header the
\* invocation wrote before redirect() was called.
C8_RedirectKeepsHeaders ==
  \A i \in Inv : Http(i) /\ HandlerEndedWith(i, "redirect") => CarriesOwnHeaders(i)

\* C9: an HTTP invocation that names an unregistered function is answered 404
\* with the message naming it, and no context of executeServerFn, validator,
\* middleware or handler was set up or run for it; one whose handler called
\* notFound(msg) is answered 404 with msg.
C9_NotFoundResponse ==
  \A i \in Inv :
    /\ Finished(i) /\ Http(i) /\ WasDecoded(i) /\ ~Registered(i) =>
         /\ response[i].status = 404
         /\ response[i].body.error = "Unknown server function: " \o req[i].name
         /\ trace[i] = <<>>
         /\ eKey[i] = 0
    /\ Http(i) /\ HandlerEndedWith(i, "notFound") =>
         /\ response[i].status = 404
         /\ response[i].body.error = LastOp(i).a

\* both cases, in one state
C9_Witness ==
  /\ \E i \in Inv : Finished(i) /\ Http(i) /\ WasDecoded(i) /\ ~Registered(i)
                    /\ response[i].status = 404
  /\ \E i \in Inv : Http(i) /\ HandlerEndedWith(i, "notFound")
                    /\ response[i].body.error = "Post 9 not found"

\* C10: an HttpError(status, message) thrown by the handler is answered with
\* that status and message; an invocation that reached authMiddleware
\* without a bearer token is answered 401 "Unauthorized" and its handler
\* is never entered.
C10_HttpErrorResponse ==
  \A i \in Inv :
    /\ Http(i) /\ HandlerEndedWith(i, "httpError") =>
         /\ response[i].status = LastOp(i).n
         /\ response[i].body.error = LastOp(i).a
    /\ Registered(i) /\ "authMiddleware" \in Range(trace[i]) /\ ~req[i].auth =>
         /\ ~HandlerEntered(i)
         /\ Finished(i) /\ Http(i) =>
              response[i].status = 401 /\ response[i].body.error = "Unauthorized"

\* a 403 from a handler and a 401 from authMiddleware
C10_Witness ==
  /\ \E i \in Inv : Http(i) /\ HandlerEndedWith(i, "httpError") /\ response[i].status = 403
  /\ \E i \in Inv : Finished(i) /\ Http(i) /\ "authMiddleware" \in Range(trace[i])
                    /\ response[i].status = 401

\* The exceptions of the model that are none of the four signals: what a
\* plain-function validator throws and what getRequestContext throws.
UnclassifiedErrors ==
  { PlainError("object expected"),
    PlainError("getRequestContext() must be called within a server function"),
    PlainError("No request context available") }

\* C11 (as claimed): an exception that is none of the signals is answered
\* 500, and the exception's own text is in the body of a 500 only when the
\* process is not in production mode.
C11_GenericMessageInProduction ==
  \A i \in Inv :
    Finished(i) /\ Http(i) =>
      /\ response[i].body.error \in {StringOf(e) : e \in UnclassifiedErrors} =>
           response[i].status = 500 /\ isDev
      /\ response[i].status = 500 =>
           isDev \/ response[i].body.error \notin {StringOf(e) : e \in UnclassifiedErrors}

\* the control signals: redirect, not found, HTTP error, validation failure
SignalTypes == {"RedirectError", "NotFoundError", "HttpError", "ZodError"}

\* C12 (as claimed): a signal raised in a handler or middleware is turned
\* into a response; no invocation, over HTTP or in-process, ends with the
\* signal left to its caller as an exception.
C12_SignalsNeverReachCaller ==
  \A i \in Inv : Finished(i) => thrown[i].type \notin SignalTypes

\* C13 (as claimed): when the response of a remote call has a non-success
\* status, the error the callable raises has the message the server put in
\* the body of that response.
C13_ClientErrorMessage ==
  \A i \in Inv :
    Finished(i) /\ Http(i) /\ response[i].status >= 400 =>
      /\ HandleResponse(response[i]).kind = "error"
      /\ HandleResponse(response[i]).message = response[i].body.error

\* C14: for a procedure without a validator the handler is given the
\* caller's input: the same value for a call in the server process, and a value
\* equal to it after JSON.stringify in the browser and JSON.parse in
\* handleServerFn for a POST, for every JSON value (null, false, 0 and ""
\* among them); decoding such a body never throws.
C14_InputRoundTrip ==
  /\ rtStage # "thrown"
  /\ rtStage = "handled" => rtArg = rtInput

\* a remote call with input 0 has reached the handler
C14_Witness == rtStage = "handled" /\ rtWindow /\ rtInput = JsNumber(0) /\ rtBody = <<"0">>

\* The indices of the entries of the configuration that are registered under
\* exactly this path, and of the templated ones that match it segment for
\* segment: same number of segments, a literal segment equal to the path's, a
\* named one against any segment that is not empty.
ExactEntries(path) == {k \in 1..Len(routeSSRConfig) : routeSSRConfig[k].path = path}
SegmentsMatch(pattern, path) ==
  /\ Len(pattern) = Len(path)
  /\ \A k \in 1..Len(pattern) :
       IF pattern[k].param THEN path[k].param \/ path[k].text # "" ELSE pattern[k] = path[k]
TemplatedEntries(path) ==
  {k \in 1..Len(routeSSRConfig) :
     /\ \E j \in 1..Len(routeSSRConfig[k].path) : routeSSRConfig[k].path[j].param
     /\ SegmentsMatch(routeSSRConfig[k].path, path)}
Least(S) == CHOOSE k \in S : \A j \in S : k <= j

\* C15: getRouteSSRConfig(path) is the configuration registered under exactly
\* path when there is one, else that of the first templated pattern, in
\* registration order, that matches path segment for segment, else {ssr: true}.
C15_RouteConfigLookup ==
  \A path \in RequestPaths :
    GetRouteSSRConfig(routeSSRConfig, path) =
      IF ExactEntries(path) # {} THEN routeSSRConfig[Least(ExactEntries(path))].config
      ELSE IF TemplatedEntries(path) # {}
      THEN routeSSRConfig[Least(TemplatedEntries(path))].config
      ELSE RouteSSRConfig("true")

\* /posts/:id was registered first as client-only and /posts/1 after it as
\* data-only: the lookup of /posts/1 gives data-only, that of /posts/2 client-only
C15_Witness ==
  /\ routeSSRConfig = << [path |-> <<Literal("posts"), Named("id")>>, config |-> RouteSSRConfig("false")],
                         [path |-> <<Literal("posts"), Literal("1")>>, config |-> RouteSSRConfig("data-only")] >>
  /\ GetRouteSSRConfig(routeSSRConfig, <<Literal("posts"), Literal("1")>>).ssr = "data-only"
  /\ GetRouteSSRConfig(routeSSRConfig, <<Literal("posts"), Literal("2")>>).ssr = "false"

\* the mode the path of the page request resolves to
RequestMode ==
  LET ssr == GetRouteSSRConfig(routeSSRConfig, ssrUrl.path).ssr IN
  IF ssr = "false" THEN "ClientOnly" ELSE IF ssr = "data-only" THEN "DataOnly" ELSE "Full"

\* C16: a page request whose path resolves to ClientOnly invokes neither the
\* router and its loaders nor the render routine, and is answered 200 with the
\* client-only shell, whose bootstrap state is the requested URL and nothing
\* else.
C16_ClientOnlyShell ==
  ssrStage # "idle" /\ RequestMode = "ClientOnly" =>
    /\ ssrStage = "done"
    /\ ssrCalled = {}
    /\ ssrLoaded = {}
    /\ ~ssrThrown
    /\ ssrResponse = Page(200, "client-only-shell", ssrUrl, {}, "")

\* /admin is client-only and was requested with a query string, for a route
\* whose loaders would return data
C16_Witness ==
  /\ ssrStage = "done" /\ RequestMode = "ClientOnly"
  /\ ssrUrl = [path |-> <<Literal("admin")>>, search |-> "?tab=1"]
  /\ ssrLoaderData # {}
  /\ ssrResponse.status = 200

\* C17 (as claimed): a page request whose path resolves to DataOnly runs
\* router.load() and never the markup phase, and the bootstrap data of the
\* shell it is answered with has the entries the loaders acquired.
C17_DataOnlyEmbedsLoaderData ==
  ssrStage = "done" /\ RequestMode = "DataOnly" /\ ssrFails = "none" =>
    /\ "router.load" \in ssrCalled
    /\ "renderToReadableStream" \notin ssrCalled
    /\ ssrResponse.kind = "data-only-shell"
    /\ ssrLoaded \subseteq ssrResponse.data

\* C18: a page request whose path resolves to Full is always answered: with
\* the stream when the render routine succeeds, with the 500 error page when
\* router.load() or renderToReadableStream fails; no exception leaves fetch.
C18_FullRenderFailureIs500 ==
  ssrStage = "done" /\ RequestMode = "Full" =>
    /\ ~ssrThrown
    /\ ssrFails = "none" => ssrResponse = Page(200, "stream", ssrUrl, {}, "")
    /\ ssrFails # "none" => ssrResponse.status = 500 /\ ssrResponse.kind = "error-page"

\* router.load() has failed for a Full request and the error page was returned
C18_Witness ==
  /\ ssrStage = "done" /\ RequestMode = "Full"
  /\ ssrFails = "router.load"
  /\ ssrResponse.status = 500

\* C19: awaitDeferred(d, ms) returns the resolved value when d's computation
\* has resolved and re-raises the rejection when it has rejected; it returns
\* null only when the computation has not settled by the time it returns, and
\* then no later than ms after the call; with ms <= 0 it sets no timer and
\* returns in the call itself.
C19_AwaitDeferredOutcome ==
  /\ dfOutcome.kind = "value" =>
       dfPromise.state = "fulfilled" /\ dfOutcome.value = dfPromise.value
  /\ dfOutcome.kind = "thrown" =>
       dfPromise.state = "rejected" /\ dfOutcome.value = dfPromise.value
  /\ dfOutcome.kind = "null" =>
       /\ ~dfOutcome.settled
       /\ dfOutcome.at <= dfCall.at + (IF dfCall.timeoutMs > 0 THEN dfCall.timeoutMs ELSE 0)
  /\ dfCall # NoCall /\ dfCall.timeoutMs <= 0 =>
       dfCall.timer = "none" /\ dfOutcome.kind # "none" /\ dfOutcome.at = dfCall.at
  /\ dfCall.stage = "racing" /\ dfClock > dfCall.at + dfCall.timeoutMs =>
       dfOutcome.kind # "none"

\* the last createNamedServerFn call for a name is the one its entry is from
LastNamed(k) == \A j \in (k + 1)..Len(nmCreated) : nmCreated[j].name # nmCreated[k].name

\* C20: a procedure created with createNamedServerFn(name, handler) is
\* registered under name: the registry has an entry for name, the callable's
\* _name and url are derived from name, and executing name runs handler.
C20_NamedRegistration ==
  \A k \in 1..Len(nmCreated) :
    LET c == nmCreated[k] IN
      /\ c.serverFn._name = c.name
      /\ c.serverFn.url = "/_server-fn/" \o c.name
      /\ LastNamed(k) =>
           /\ c.name \in DOMAIN serverFnRegistry
           /\ Calls(serverFnRegistry[c.name].handler) = c.handler
           /\ nmExecuted.name = c.name =>
                nmExecuted.thrown = NoError /\ nmExecuted.ran = c.handler

\* C21: once handler() has registered a descriptor under a name, no later
\* builder operation changes the descriptor stored under that name: the entry
\* of every callable's name is the descriptor the callable was built with.
C21_DescriptorImmutable ==
  \A k \in 1..Len(bdServerFns) :
    serverFnRegistry[bdServerFns[k]._name] = bdServerFns[k].built

\* the first k definitions of the two executions are the same, in the same order
SamePrefix(k) ==
  /\ k <= Len(runs[1].defined) /\ k <= Len(runs[2].defined)
  /\ \A j \in 1..k : runs[1].defined[j].kind = runs[2].defined[j].kind

\* C22: generated names come from an increasing counter: within one execution
\* no two definitions receive the same name, and two executions that make
\* the same definitions in the same order give each the same name.
C22_GeneratedNames ==
  /\ \A e \in Executions : \A j, k \in 1..Len(runs[e].defined) :
       j # k => runs[e].defined[j].name # runs[e].defined[k].name
  /\ \A k \in 1..MaxDefs :
       SamePrefix(k) => runs[1].defined[k].name = runs[2].defined[k].name

\* both executions have made the same two definitions or more
C22_Witness ==
  /\ SamePrefix(2)
  /\ runs[1].defined[1].kind # runs[1].defined[2].kind

\* C23: when validator() is called more than once while a procedure is built,
\* only the validator given last is applied to the input at invocation: the
\* outcome of the validation step is that of the last schema alone, whatever
\* the earlier ones would have accepted, rejected or returned.
C23_LastValidatorOnly ==
  bdInvoked # NoInvocation =>
    LET vs == bdInvoked.validators
        r == RunValidator(ValidatorFn(vs[Len(vs)]), bdInvoked.input)
    IN IF vs = <<>>
         THEN bdInvoked.ok /\ bdInvoked.value = bdInvoked.input
         ELSE /\ bdInvoked.ok = r.ok
              /\ bdInvoked.value = r.value
              /\ bdInvoked.error = r.error

\* a procedure built with two validators is invoked with an input that the
\* first rejects and the last accepts
C23_Witness ==
  /\ bdInvoked # NoInvocation
  /\ Len(bdInvoked.validators) = 2
  /\ ~RunValidator(ValidatorFn(bdInvoked.validators[1]), bdInvoked.input).ok
  /\ RunValidator(ValidatorFn(bdInvoked.validators[2]), bdInvoked.input).ok
  /\ bdInvoked.ok

\* the errors getRequestContext() throws
NoContextErrors ==
  {PlainError("getRequestContext() must be called within a server function"),
   PlainError("No request context available")}

\* C24: the context of an invocation stays usable for the whole of that
\* invocation whatever the lifetimes of other invocations: no middleware or
\* handler has a context utility fail for want of a context.
C24_ContextUsableInFlight ==
  \A i \in Inv : thrown[i] \notin NoContextErrors

\* the validator the definition registered under this name was given last,
\* NoValidator when it was given none
PassedValidator(name) ==
  LET d == Definitions[CHOOSE k \in 1..Len(Definitions) : FnName(k - 1) = name]
      vs == SelectSeq(d.calls, LAMBDA c : c.call = "validator") IN
  IF vs = <<>> THEN NoValidator ELSE ValidatorFn(vs[Len(vs)].arg)
\* the procedure validates and its validator rejects the input of the invocation
FailsValidation(i) ==
  /\ PassedValidator(req[i].name) # NoValidator
  /\ ~RunValidator(PassedValidator(req[i].name), req[i].input).ok

\* C25: within one invocation the steps run in the order lookup, context
\* creation, validation, middleware chain, handler; when the input fails
\* validation no middleware runs, and an unauthenticated request with such an
\* input to a procedure guarded by authMiddleware is answered 400, not 401.
C25_StepOrder ==
  \A i \in Inv :
    /\ eKey[i] # 0 => req[i].name \in DOMAIN serverFnRegistry
    /\ trace[i] # <<>> => eKey[i] # 0
    /\ Registered(i) /\ trace[i] # <<>> =>
         /\ PassedValidator(req[i].name) # NoValidator => trace[i][1] = "validator"
         /\ \A k \in 1..Len(trace[i]) :
              /\ trace[i][k] = "validator" => k = 1
              /\ trace[i][k] = "handler" => k = Len(trace[i])
         /\ FailsValidation(i) => trace[i] = <<"validator">>
    /\ Finished(i) /\ Http(i) /\ Registered(i) /\ WasDecoded(i) /\ FailsValidation(i)
         /\ req[i].name \in GuardedNames /\ ~req[i].auth =>
         response[i].status = 400

\* an unauthenticated request with an input the schema rejects, to a
\* procedure guarded by authMiddleware, has been answered
C25_Witness ==
  \E i \in Inv :
    /\ Finished(i) /\ Http(i) /\ Registered(i) /\ FailsValidation(i)
    /\ req[i].name \in GuardedNames /\ ~req[i].auth
    /\ response[i].status = 400
    /\ trace[i] = <<"validator">>

\* the value the k-th middleware passed to next, if it passed one
PassedToNext(k) ==
  IF chMiddlewares[k].passes \in ChainData THEN chMiddlewares[k].passes ELSE UndefinedData

\* C26: each middleware receives the accumulated data as `data`; next(d) sets
\* the accumulated data to d and returns it, next() leaves it unchanged and
\* returns it; and the (k+1)-th middleware receives the value the k-th passed
\* to next, or what the k-th received if it passed none.
C26_MiddlewareData ==
  /\ chStage = "entered" => chReceived[chIdx] = middlewareData
  /\ chStage = "called" =>
       /\ chNextResult = middlewareData
       /\ middlewareData = Coalesce(PassedToNext(chIdx), chReceived[chIdx])
  /\ \A k \in 1..(Len(chReceived) - 1) :
       chReceived[k + 1] = Coalesce(PassedToNext(k), chReceived[k])

\* C27: a GET request whose path is equal to the pattern of a defined route
\* without parameters is dispatched to that route, whatever the order in
\* which the routes were defined.
C27_LiteralRouteFirst ==
  /\ apiRequest.method = "GET"
  /\ \E k \in 1..Len(apiRoutes) :
       /\ apiRoutes[k].pattern = apiRequest.pathname
       /\ apiRoutes[k].paramNames = <<>>
  => apiResponse = ApiResponse(200, apiRequest.pathname)

\* the document kinds each mode may be answered with
StrategyKinds(mode) ==
  CASE mode = "ClientOnly" -> {"client-only-shell"}
    [] mode = "DataOnly" -> {"data-only-shell", "error-page"}
    [] mode = "Full" -> {"stream", "error-page"}
\* the routine that fails for this request is one its mode invokes
FailureHappens ==
  \/ RequestMode # "ClientOnly" /\ ssrFails = "router.load"
  \/ RequestMode = "Full" /\ ssrFails = "renderToReadableStream"

\* C28: every page request is answered, whatever mode its path resolves to:
\* with the document of that mode's strategy (an entry without `ssr` counts
\* as Full), or, when router.load() or the render fails, with an error
\* response; no exception leaves fetch.
C28_EveryPageAnswered ==
  ssrStage = "done" =>
    /\ ~ssrThrown
    /\ ssrResponse # NoPage
    /\ ssrResponse.kind \in StrategyKinds(RequestMode)
    /\ ssrResponse.status = IF FailureHappens THEN 500 ELSE 200

\* the keys of the promises that are resolved when the stream is made
RECURSIVE ResolvedKeys(_)
ResolvedKeys(entries) ==
  IF entries = <<>> THEN <<>>
  ELSE (IF Head(entries).promise.state = "resolved" THEN <<Head(entries).key>> ELSE <<>>)
         \o ResolvedKeys(Tail(entries))
IsDeferredKey(t) == \E k \in 1..Len(DeferredKeys) : DeferredKeys[k] = t
\* C29: whatever the chunks a document containing </body> is written in, the
\* flushed output is the document with one script block for each resolved
\* deferred promise, in order, immediately before the first </body>, and
\* nothing else added, dropped, duplicated or reordered.
C29_TransformOutput ==
  tfClosed /\ tfDocument # <<>> =>
    LET at == IndexOf(tfDocument, BodyEndTag)
        added == Len(tfOutput) - Len(tfDocument)
    IN /\ added >= 0
       /\ SubSeq(tfOutput, 1, at - 1) = SubSeq(tfDocument, 1, at - 1)
       /\ SubSeq(tfOutput, at + added, Len(tfOutput)) = SubSeq(tfDocument, at, Len(tfDocument))
       /\ SelectSeq(SubSeq(tfOutput, at, at + added - 1), IsDeferredKey)
            = ResolvedKeys(deferredPromises)

\* C30: the argument of the handler is made of the validated input and of the
\* context of the request alone: whatever the middlewares pass to next or
\* return, the handler receives the same input and the same context.
C30_HandlerArgsIndependent ==
  chStage = "handler" =>
    chHandlerArgs = [input |-> chValidatedInput, context |-> ChainContext(chRequest)]
\* a middleware has injected the user through next and the handler was called
C30_Witness ==
  /\ chStage = "handler"
  /\ chMiddlewares[Len(chMiddlewares)] = [passes |-> "user", returns |-> "result"]
  /\ middlewareData = "user"
  /\ chHandlerArgs.input = chValidatedInput

==============================================================================
